---- MODULE Spec2Model ----
(***************************************************************************)
(* Reconciliation of the monitoring platform (PRTG) with the inventory     *)
(* (ServiceNow): sync_trees, _sync_groups and sync_device of src/src/sync.py,*)
(* the PrtgController operations they call, get_tree, and the group        *)
(* clean-up of sync_device_to_group_v2 in src/src/main.py.                 *)
(*                                                                         *)
(* Names are sequences of tokens, so that str.startswith is a real prefix  *)
(* test.  Platform object ids are positive integers handed out by a        *)
(* counter; 0 stands for Python's None.                                    *)
(***************************************************************************)
EXTENDS Integers, Sequences, FiniteSets, TLC

\* ---------------------------------------------------------------- bounds
\* Largest platform object id the platform hands out.
MaxId == 12
\* Number of ConfigItems of the site.
NumCI == 2
\* Number of sync_trees runs in one behaviour.
MaxRuns == 2
\* Largest number of ancestor groups between the root and an expected device.
MaxDepth == 2
\* the largest number of attempts configured for compare_with_attempts
MaxAttempts == 3

None == 0
Ids == 1 .. MaxId
CIs == 1 .. NumCI

\* ---------------------------------------------------------------- names
\* "[C]": the company root; "[C] A", "[C] B": group labels; "[C] A..." is a
\* platform name that only starts with "[C] A" (platform decoration).
RootName == <<0>>
NameA == <<0, 1>>
NameB == <<0, 2>>
NameAx == <<0, 1, 9>>
RootNameX == <<0, 9>>
OtherRoot == <<7>>
NameC == <<0, 3>>
NameD == <<0, 4>>
ExpectedNames == {NameA, NameB}

\* str.startswith
StartsWith(s, p) == Len(p) <= Len(s) /\ SubSeq(s, 1, Len(p)) = p

\* ---------------------------------------------------------------- sequences
Range(s) == {s[k] : k \in DOMAIN s}

Reverse(s) == [k \in 1 .. Len(s) |-> s[Len(s) + 1 - k]]

\* ---------------------------------------------------------------- trees
\* A tree (anytree Node) is a sequence of nodes in the order they were
\* attached; node 1 is the root.  parent is an index into the sequence
\* (0 for the root); a parent's children list is in attach order.
RECURSIVE ChildrenFrom(_, _, _)
ChildrenFrom(tree, p, from) ==
    IF from > Len(tree) THEN <<>>
    ELSE (IF tree[from].parent = p THEN <<from>> ELSE <<>>)
         \o ChildrenFrom(tree, p, from + 1)

\* node.children of node p
Children(tree, p) == ChildrenFrom(tree, p, 1)

RECURSIVE FlatChildren(_, _)
FlatChildren(tree, frontier) ==
    IF frontier = <<>> THEN <<>>
    ELSE Children(tree, Head(frontier)) \o FlatChildren(tree, Tail(frontier))

RECURSIVE LevelOrderFrom(_, _)
LevelOrderFrom(tree, frontier) ==
    IF frontier = <<>> THEN <<>>
    ELSE frontier \o LevelOrderFrom(tree, FlatChildren(tree, frontier))

\* anytree.LevelOrderIter(root): indices of all nodes, level by level
LevelOrderIter(tree) == IF tree = <<>> THEN <<>> ELSE LevelOrderFrom(tree, <<1>>)

\* anytree.LevelOrderIter(root, filter_=...)
LevelOrderOf(tree, kind) ==
    SelectSeq(LevelOrderIter(tree), LAMBDA k : tree[k].kind = kind)

RECURSIVE NodePath(_, _)
\* node.path: indices from the root down to node k
NodePath(tree, k) == IF k = 0 THEN <<>> ELSE Append(NodePath(tree, tree[k].parent), k)

\* ---------------------------------------------------------------- state
VARIABLES
    prtg,      \* the platform: object id -> [kind, name, parent, url]
    nextId,    \* the platform's next object id
    snow,      \* the inventory: ConfigItem -> prtg_id (None when unset)
    cipath,    \* the inventory: ConfigItem -> names of its expected ancestor groups
    expected,  \* sync_trees: the expected tree (ids are stamped on it)
    current,   \* sync_trees: the current tree, as fetched by get_tree
    pc,        \* position in the running operation
    device_to_add,  \* sync_trees: expected device nodes to create (node indices)
    idx,       \* sync_trees: position in device_to_add
    groups_to_add,  \* sync_trees: expected group nodes still to create, root first
    new_device,     \* sync_trees: id of the device just created, not yet written back
    returned,  \* sync_trees: the returned list (ConfigItems of the devices added)
    calls,     \* the platform and inventory calls made by the running operation
    before,    \* the platform as it was when the running operation started
    before_snow,  \* the inventory as it was when the running operation started
    previous,  \* how the operation before the running one ended
    existing_group,  \* sync_device: id of the last group found or created
    current_parent,  \* sync_device: id of the device's parent on the platform
    grandparent,     \* sync_device_to_group_v2: id of the parent's parent
    request,   \* sync_device_to_group_v2: the request (snow_data)
    run        \* number of operations started

vars == <<prtg, nextId, snow, cipath, expected, current, pc, device_to_add, idx,
          groups_to_add, new_device, returned, calls, before, before_snow, previous,
          existing_group, current_parent, grandparent, request, run>>

\* the variables of sync_device and sync_device_to_group_v2
moveVars == <<existing_group, current_parent, grandparent, request>>

\* ---------------------------------------------------------------- platform
NoObject == [kind |-> "none", name |-> <<>>, parent |-> None, url |-> None]
GroupObject(name, parent) == [kind |-> "group", name |-> name, parent |-> parent, url |-> None]
DeviceObject(name, parent, url) == [kind |-> "device", name |-> name, parent |-> parent, url |-> url]

\* the probe's own device, which get_tree ignores
ProbeDeviceName == <<8>>
\* the display name from_ci gives the device of ConfigItem ci
DeviceName(ci) == <<5, ci>>

RECURSIVE IsUnder(_, _, _)
\* object id lies below group g on platform p
IsUnder(p, id, g) ==
    /\ id \in Ids
    /\ p[id].parent # None
    /\ (p[id].parent = g \/ IsUnder(p, p[id].parent, g))

\* client.get_devices_by_group_id: ids of all devices below group g
get_devices_by_group_id(p, g) == {d \in Ids : p[d].kind = "device" /\ IsUnder(p, d, g)}

\* client.get_groups_by_group_id: ids of all groups below group g
get_groups_by_group_id(p, g) == {d \in Ids : p[d].kind = "group" /\ IsUnder(p, d, g)}

\* ---------------------------------------------------------------- get_tree
GroupNode(name, id, parent) == [kind |-> "group", name |-> name, id |-> id, parent |-> parent, ci |-> None]
DeviceNode(name, id, parent, ci) == [kind |-> "device", name |-> name, id |-> id, parent |-> parent, ci |-> ci]

\* group_map[id]: the node carrying id, 0 when the id is not a key
GroupMap(tree, id) ==
    IF \E k \in DOMAIN tree : tree[k].id = id
    THEN CHOOSE k \in DOMAIN tree : tree[k].id = id
    ELSE 0

RECURSIVE WalkUpUncached(_, _, _)
\* mutant: the walk ignores group_map and goes up to the root every time
WalkUpUncached(p, tree, curr_parent_id) ==
    IF curr_parent_id = tree[1].id THEN <<>>
    ELSE <<curr_parent_id>> \o WalkUpUncached(p, tree, p[curr_parent_id].parent)

RECURSIVE WalkUp(_, _, _)
\* the ids of the parent groups from curr_parent_id upwards that have no node yet
WalkUp(p, tree, curr_parent_id) ==
    IF GroupMap(tree, curr_parent_id) # 0 THEN <<>>
    ELSE <<curr_parent_id>> \o WalkUp(p, tree, p[curr_parent_id].parent)

RECURSIVE Splice(_, _, _, _)
\* create the tree path downward, starting with the existing node as parent
Splice(p, tree, existing_node, ids) ==
    IF ids = <<>> THEN tree
    ELSE LET o == p[Head(ids)]
             node == IF o.kind = "device"
                     THEN DeviceNode(o.name, Head(ids), existing_node, None)
                     ELSE GroupNode(o.name, Head(ids), existing_node)
         IN Splice(p, Append(tree, node), Len(tree) + 1, Tail(ids))

RECURSIVE GetTreeLoop(_, _, _)
GetTreeLoop(p, tree, devices) ==
    IF devices = <<>> THEN tree
    ELSE LET d == Head(devices) IN
         IF p[d].name = ProbeDeviceName THEN GetTreeLoop(p, tree, Tail(devices))
         ELSE LET missing == WalkUp(p, tree, p[d].parent)
                  top == IF missing = <<>> THEN p[d].parent
                         ELSE p[missing[Len(missing)]].parent
                  nodes_to_create == <<d>> \o missing
              IN GetTreeLoop(p, Splice(p, tree, GroupMap(tree, top), Reverse(nodes_to_create)),
                             Tail(devices))

\* mutant: only the devices directly under the group are walked
get_tree_direct(p, group, devices) ==
    GetTreeLoop(p, <<GroupNode(p[group].name, group, 0)>>,
                SelectSeq(devices, LAMBDA d : p[d].parent = group))

\* PrtgController.get_tree(group), the platform listing the devices in the
\* order given by the sequence devices
get_tree(p, group, devices) ==
    GetTreeLoop(p, <<GroupNode(p[group].name, group, 0)>>, devices)

\* the orders in which the platform may list a set of devices
Orderings(S) == {f \in [1 .. Cardinality(S) -> S] : \A a, b \in DOMAIN f : a # b => f[a] # f[b]}

\* ---------------------------------------------------------------- expected tree
SetMin(S) == CHOOSE x \in S : \A y \in S : x <= y

RECURSIVE add_ci_groups_only(_, _, _, _, _)
\* mutant: the subgroups are created but the device is not attached
add_ci_groups_only(tree, parent, path, ci, id) ==
    IF path = <<>> THEN tree
    ELSE LET hit == {k \in DOMAIN tree : tree[k].parent = parent /\ tree[k].name = Head(path)}
         IN IF hit # {}
            THEN add_ci_groups_only(tree, SetMin(hit), Tail(path), ci, id)
            ELSE add_ci_groups_only(Append(tree, GroupNode(Head(path), None, parent)),
                                    Len(tree) + 1, Tail(path), ci, id)

RECURSIVE add_ci(_, _, _, _, _)
\* TreeBuilder.add_ci: follow the group names of the ConfigItem's path below
\* node parent, creating the subgroups that do not exist, and attach the device
add_ci(tree, parent, path, ci, id) ==
    IF path = <<>> THEN Append(tree, DeviceNode(DeviceName(ci), id, parent, ci))
    ELSE LET hit == {k \in DOMAIN tree : tree[k].parent = parent /\ tree[k].name = Head(path)}
         IN IF hit # {}
            THEN add_ci(tree, SetMin(hit), Tail(path), ci, id)
            ELSE add_ci(Append(tree, GroupNode(Head(path), None, parent)),
                        Len(tree) + 1, Tail(path), ci, id)

RECURSIVE AddCis(_, _, _, _)
AddCis(tree, paths, ids, ci) ==
    IF ci > NumCI THEN tree
    ELSE AddCis(add_ci(tree, 1, paths[ci], ci, ids[ci]), paths, ids, ci + 1)

\* the expected tree of the site: the root group without id, and one device
\* per ConfigItem carrying the ConfigItem's prtg_id
ExpectedTree(paths, ids) == AddCis(<<GroupNode(RootName, None, 0)>>, paths, ids, 1)

\* ---------------------------------------------------------------- _sync_groups
RECURSIVE DictOf(_, _, _)
\* {node.prtg_obj.name: node for node in current_groups}: keys keep the order
\* of their first insertion, a later node of the same name replaces the value
DictOf(tree, nodes, dict) ==
    IF nodes = <<>> THEN dict
    ELSE LET n == tree[Head(nodes)]
             hit == {k \in DOMAIN dict : dict[k].name = n.name}
         IN DictOf(tree, Tail(nodes),
                   IF hit = {} THEN Append(dict, [name |-> n.name, id |-> n.id])
                   ELSE [dict EXCEPT ![SetMin(hit)].id = n.id])

\* next((name for name in current_groups_map.keys() if name.startswith(n)), None)
FirstKey(dict, name) ==
    LET hit == {k \in DOMAIN dict : StartsWith(dict[k].name, name)}
    IN IF hit = {} THEN 0 ELSE SetMin(hit)

\* mutant: the matched key stays in the dict
Keep(dict, k) == dict

\* current_groups_map.pop(group_name)
Pop(dict, k) == SubSeq(dict, 1, k - 1) \o SubSeq(dict, k + 1, Len(dict))

RECURSIVE StampGroups(_, _, _)
\* update non-root group ids
StampGroups(tree, nodes, dict) ==
    IF nodes = <<>> THEN tree
    ELSE LET k == FirstKey(dict, tree[Head(nodes)].name)
         IN IF k = 0 THEN StampGroups(tree, Tail(nodes), dict)
            ELSE StampGroups([tree EXCEPT ![Head(nodes)].id = dict[k].id],
                             Tail(nodes), Pop(dict, k))

\* mutant: the root is compared for equality
RootMatchesExactly(exp, cur) == cur[1].name = exp[1].name

\* confirm root matches
RootMatches(exp, cur) == StartsWith(cur[1].name, exp[1].name)

\* _sync_groups(expected, current) when the root matches: the expected tree
\* with the ids of the matching current groups
sync_groups(exp, cur) ==
    LET expected_groups == LevelOrderOf(exp, "group")
        current_groups == LevelOrderOf(cur, "group")
        current_groups_map == DictOf(cur, Tail(current_groups), <<>>)
    IN StampGroups([exp EXCEPT ![1].id = cur[1].id], Tail(expected_groups),
                   current_groups_map)

\* mutant: only a device without an id is missing
DevicesWithoutId(exp, cur) ==
    SelectSeq(LevelOrderOf(exp, "device"), LAMBDA k : exp[k].id = None)

\* mutant: every expected device is added
AllDevices(exp, cur) == LevelOrderOf(exp, "device")

\* device is missing if ID is missing, or if ID exists but no device is found
DevicesToAdd(exp, cur) ==
    LET current_devices == {cur[k].id : k \in {j \in DOMAIN cur : cur[j].kind = "device"}}
    IN SelectSeq(LevelOrderOf(exp, "device"),
                 LAMBDA k : exp[k].id = None \/ exp[k].id \notin current_devices)

\* ---------------------------------------------------------------- controllers
\* mutant: every new group is created directly under the root group
add_group_flat(p, newId, name, parent) == [p EXCEPT ![newId] = GroupObject(name, 1)]

\* PrtgController.add_group: the platform with the new group newId under parent
add_group(p, newId, name, parent) == [p EXCEPT ![newId] = GroupObject(name, parent)]

\* mutant: a device of that name that exists already is moved under parent
\* instead of a new one being created
add_device_upsert(p, newId, name, parent, url) ==
    LET same == {d \in Ids : p[d].kind = "device" /\ p[d].name = name}
    IN IF same = {} THEN [p EXCEPT ![newId] = DeviceObject(name, parent, url)]
       ELSE [p EXCEPT ![SetMin(same)].parent = parent, ![newId] = DeviceObject(name, parent, url)]

\* PrtgController.add_device: the platform with the new device newId under
\* parent, its service url linking to the ConfigItem
add_device(p, newId, name, parent, url) == [p EXCEPT ![newId] = DeviceObject(name, parent, url)]

\* mutant: the prtg_id is not persisted
update_config_item_lost(inv, ci, prtg_id) == inv

\* SnowController.update_config_item: persists the prtg_id of the ConfigItem
update_config_item(inv, ci, prtg_id) == [inv EXCEPT ![ci] = prtg_id]

\* mutant: the platform does not carry out the move
move_object_ignored(p, id, parent) == p

\* PrtgController.move_object: the object under its new parent
move_object(p, id, parent) == [p EXCEPT ![id].parent = parent]

\* PrtgController.delete_object: the platform removes the object and
\* everything below it
delete_object(p, id) ==
    [o \in Ids |-> IF o = id \/ IsUnder(p, o, id) THEN NoObject ELSE p[o]]

\* PrtgController.update_device: the live name and service url become the
\* expected ones
update_device(p, id, name, url) == [p EXCEPT ![id].name = name, ![id].url = url]

\* client.get_groups_by_name_containing(name) filtered for the exact name:
\* the ids of all groups of the platform with that name
GroupsNamed(p, name) == {g \in Ids : p[g].kind = "group" /\ p[g].name = name}

Call(op, id, parent, dev) == [op |-> op, id |-> id, parent |-> parent, dev |-> dev]

\* ---------------------------------------------------------------- Init
PlatformNames == {NameA, NameAx, NameB}
Paths == UNION {[1 .. n -> ExpectedNames] : n \in 0 .. MaxDepth}

\* The platform before the first run: the root (id 1), up to two groups
\* (ids 2 and 3) and up to one device (id 4); id 5 belonged to a device that
\* has been deleted.  A parent of None places the device outside the root.
InitialPlatforms ==
    {[id \in Ids |-> CASE id = 1 -> GroupObject(r, None)
                      [] id = 2 -> g2
                      [] id = 3 -> g3
                      [] id = 4 -> d4
                      [] OTHER -> NoObject] :
        r \in {RootName, RootNameX, OtherRoot},
        g2 \in {NoObject} \cup {GroupObject(n, 1) : n \in PlatformNames},
        g3 \in {NoObject} \cup {GroupObject(n, q) : n \in ExpectedNames, q \in {1, 2}},
        d4 \in {NoObject, DeviceObject(ProbeDeviceName, 1, None)}
               \cup {DeviceObject(DeviceName(1), q, None) : q \in {None, 1, 2, 3}}}

WellFormed(p) ==
    /\ p[3].kind = "group" => p[2].kind = "group"
    /\ \A id \in Ids : p[id].parent # None => p[p[id].parent].kind = "group"

Init ==
    /\ prtg \in {p \in InitialPlatforms : WellFormed(p)}
    /\ nextId = 6
    /\ cipath \in [CIs -> Paths]
    /\ snow \in [CIs -> {None, 4, 5}]
    /\ \A ci \in CIs : snow[ci] = 4 => ci = 1 /\ prtg[4].name = DeviceName(1)
    /\ expected = <<>>
    /\ current = <<>>
    /\ pc = "idle"
    /\ device_to_add = <<>>
    /\ idx = 0
    /\ groups_to_add = <<>>
    /\ new_device = None
    /\ returned = <<>>
    /\ calls = <<>>
    /\ before = prtg
    /\ before_snow = snow
    /\ previous = "idle"
    /\ existing_group = None
    /\ current_parent = None
    /\ grandparent = None
    /\ request = [op |-> "sync_trees"]
    /\ run = 0

\* ---------------------------------------------------------------- sync
\* main.sync up to the call of sync_trees: the expected tree is built from
\* the ConfigItems and the current tree is fetched from the platform.
Start ==
    /\ pc \in {"idle", "done", "raised"}
    /\ run < MaxRuns
    /\ run' = run + 1
    /\ expected' = ExpectedTree(cipath, snow)
    /\ \E devices \in Orderings(get_devices_by_group_id(prtg, 1)) :
           current' = get_tree(prtg, 1, devices)
    /\ pc' = "sync_groups"
    /\ device_to_add' = <<>>
    /\ idx' = 0
    /\ groups_to_add' = <<>>
    /\ new_device' = None
    /\ returned' = <<>>
    /\ calls' = <<>>
    /\ before' = prtg
    /\ before_snow' = snow
    /\ previous' = pc
    /\ UNCHANGED <<prtg, nextId, snow, cipath, moveVars>>

\* sync_trees, lines 67-80: _sync_groups and the list of devices to add
SyncGroups ==
    /\ pc = "sync_groups"
    /\ IF ~RootMatches(expected, current)
       THEN /\ pc' = "raised"
            /\ UNCHANGED <<expected, device_to_add, idx>>
       ELSE /\ expected' = sync_groups(expected, current)
            /\ device_to_add' = DevicesToAdd(expected', current)
            /\ idx' = 1
            /\ pc' = IF device_to_add' = <<>> THEN "done" ELSE "add_device"
    /\ UNCHANGED <<prtg, nextId, snow, cipath, current, groups_to_add, new_device,
                   returned, calls, before, before_snow, previous, run, moveVars>>

\* the missing groups above device node n, the closest existing ancestor
\* excluded, in the order they are created (lines 87-96)
RECURSIVE MissingAbove(_, _)
MissingAbove(exp, nodes) ==
    IF nodes = <<>> \/ exp[Head(nodes)].id # None THEN <<>>
    ELSE <<Head(nodes)>> \o MissingAbove(exp, Tail(nodes))

\* mutant: every expected group without an id is created, top down
MissingGroups(exp, n) ==
    SelectSeq(LevelOrderOf(exp, "group"), LAMBDA g : exp[g].id = None)

GroupsToAdd(exp, n) ==
    LET path == NodePath(exp, n)
        middle == SubSeq(path, 2, Len(path) - 2)
    IN Reverse(<<exp[n].parent>> \o MissingAbove(exp, Reverse(middle)))

\* sync_trees, line 84: the first add_device of a device
AddDevice ==
    /\ pc = "add_device"
    /\ LET n == device_to_add[idx]
           parent == expected[expected[n].parent]
       IN IF parent.id = None
          THEN \* ValueError: the parent group is missing
               /\ groups_to_add' = GroupsToAdd(expected, n)
               /\ pc' = "add_group"
               /\ UNCHANGED <<prtg, nextId, new_device, calls>>
          ELSE /\ nextId <= MaxId
               /\ prtg' = add_device(prtg, nextId, expected[n].name, parent.id, expected[n].ci)
               /\ nextId' = nextId + 1
               /\ new_device' = nextId
               /\ calls' = Append(calls, Call("add_device", nextId, parent.id, idx))
               /\ pc' = "write_back"
               /\ UNCHANGED groups_to_add
    /\ UNCHANGED <<snow, cipath, expected, current, device_to_add, idx, returned, before, before_snow, previous, run, moveVars>>

\* sync_trees, lines 96-101: create the next missing group
AddGroup ==
    /\ pc = "add_group"
    /\ LET g == Head(groups_to_add)
           parent == expected[expected[g].parent]
       IN IF parent.id = None
          THEN \* ValueError of add_group: not caught
               /\ pc' = "failed"
               /\ UNCHANGED <<prtg, nextId, expected, groups_to_add, calls>>
          ELSE /\ nextId <= MaxId
               /\ prtg' = add_group(prtg, nextId, expected[g].name, parent.id)
               /\ nextId' = nextId + 1
               /\ expected' = [expected EXCEPT ![g].id = nextId]
               /\ groups_to_add' = Tail(groups_to_add)
               /\ calls' = Append(calls, Call("add_group", nextId, parent.id, idx))
               /\ pc' = IF groups_to_add' = <<>> THEN "add_device_again" ELSE "add_group"
    /\ UNCHANGED <<snow, cipath, current, device_to_add, idx, new_device, returned, before, before_snow, previous, run, moveVars>>

\* sync_trees, line 102: add_device once the groups exist
AddDeviceAgain ==
    /\ pc = "add_device_again"
    /\ LET n == device_to_add[idx]
           parent == expected[expected[n].parent]
       IN IF parent.id = None
          THEN /\ pc' = "failed"
               /\ UNCHANGED <<prtg, nextId, new_device, calls>>
          ELSE /\ nextId <= MaxId
               /\ prtg' = add_device(prtg, nextId, expected[n].name, parent.id, expected[n].ci)
               /\ nextId' = nextId + 1
               /\ new_device' = nextId
               /\ calls' = Append(calls, Call("add_device", nextId, parent.id, idx))
               /\ pc' = "write_back"
    /\ UNCHANGED <<snow, cipath, expected, current, device_to_add, idx, groups_to_add,
                   returned, before, before_snow, previous, run, moveVars>>

\* mutant: the ids are written back together, after the last device
WriteBackBatched ==
    /\ pc = "write_back"
    /\ expected' = [expected EXCEPT ![device_to_add[idx]].id = new_device]
    /\ new_device' = None
    /\ idx' = idx + 1
    /\ IF idx = Len(device_to_add)
       THEN /\ pc' = "done"
            /\ returned' = [k \in DOMAIN device_to_add |-> expected[device_to_add[k]].ci]
            /\ snow' = [ci \in CIs |->
                          IF \E k \in DOMAIN device_to_add : expected[device_to_add[k]].ci = ci
                          THEN expected'[CHOOSE n \in Range(device_to_add) : expected[n].ci = ci].id
                          ELSE snow[ci]]
            /\ calls' = calls \o [k \in DOMAIN device_to_add |->
                                     Call("update_config_item", expected'[device_to_add[k]].id, None, k)]
       ELSE /\ pc' = "add_device"
            /\ UNCHANGED <<returned, snow, calls>>
    /\ UNCHANGED <<prtg, nextId, cipath, current, device_to_add, groups_to_add, before,
                   before_snow, previous, run, moveVars>>

\* sync_trees, lines 103-109: stamp the id, write it back, next device or return
WriteBack ==
    /\ pc = "write_back"
    /\ LET n == device_to_add[idx]
       IN /\ expected' = [expected EXCEPT ![n].id = new_device]
          /\ snow' = update_config_item(snow, expected[n].ci, new_device)
          /\ calls' = Append(calls, Call("update_config_item", new_device, None, idx))
    /\ new_device' = None
    /\ idx' = idx + 1
    /\ IF idx = Len(device_to_add)
       THEN /\ pc' = "done"
            /\ returned' = [k \in DOMAIN device_to_add |-> expected[device_to_add[k]].ci]
       ELSE /\ pc' = "add_device"
            /\ UNCHANGED returned
    /\ UNCHANGED <<prtg, nextId, cipath, current, device_to_add, groups_to_add, before, before_snow, previous, run, moveVars>>

\* A platform call of add_device raises (a connection or HTTP error): either
\* the request that creates the device, or one of the setters that follow it.
\* sync_trees catches ValueError only, so the error ends the run.
AddDeviceFails ==
    /\ pc \in {"add_device", "add_device_again"}
    /\ LET n == device_to_add[idx]
           parent == expected[expected[n].parent]
       IN /\ parent.id # None
          /\ \/ UNCHANGED <<prtg, nextId, calls>>
             \/ /\ nextId <= MaxId
                /\ prtg' = add_device(prtg, nextId, expected[n].name, parent.id, expected[n].ci)
                /\ nextId' = nextId + 1
                /\ calls' = Append(calls, Call("add_device", nextId, parent.id, idx))
    /\ pc' = "failed"
    /\ UNCHANGED <<snow, cipath, expected, current, device_to_add, idx, groups_to_add,
                   new_device, returned, before, before_snow, previous, run, moveVars>>

\* A platform call of add_group raises.
AddGroupFails ==
    /\ pc = "add_group"
    /\ LET g == Head(groups_to_add)
           parent == expected[expected[g].parent]
       IN /\ parent.id # None
          /\ \/ UNCHANGED <<prtg, nextId, calls>>
             \/ /\ nextId <= MaxId
                /\ prtg' = add_group(prtg, nextId, expected[g].name, parent.id)
                /\ nextId' = nextId + 1
                /\ calls' = Append(calls, Call("add_group", nextId, parent.id, idx))
    /\ pc' = "failed"
    /\ UNCHANGED <<snow, cipath, expected, current, device_to_add, idx, groups_to_add,
                   new_device, returned, before, before_snow, previous, run, moveVars>>

\* update_config_item raises: the id is stamped on the node, not in the inventory.
WriteBackFails ==
    /\ pc = "write_back"
    /\ expected' = [expected EXCEPT ![device_to_add[idx]].id = new_device]
    /\ pc' = "failed"
    /\ UNCHANGED <<prtg, nextId, snow, cipath, current, device_to_add, idx, groups_to_add,
                   new_device, returned, calls, before, before_snow, previous, run, moveVars>>

Next ==
    \/ Start \/ SyncGroups \/ AddDevice \/ AddGroup \/ AddDeviceAgain \/ WriteBack
    \/ AddDeviceFails \/ AddGroupFails \/ WriteBackFails

Spec == Init /\ [][Next]_vars

\* ------------------------------------------------------------ sync_all_sites
\* the locations of the company; ConfigItem ci is at location LocationOf(ci)
Locations == {1, 2}
LocationOf(ci) == ((ci - 1) % 2) + 1
\* group_name_fmt.format(location.name): "[C] A" and "[C] B"
SiteName(l) == <<0, l>>
\* the names of the groups below a site node
SitePaths == UNION {[1 .. n -> {NameC}] : n \in 0 .. MaxDepth}

RECURSIVE AddSiteCis(_, _, _, _, _)
AddSiteCis(tree, l, paths, ids, ci) ==
    IF ci > NumCI THEN tree
    ELSE AddSiteCis(IF LocationOf(ci) = l THEN add_ci(tree, 2, paths[ci], ci, ids[ci]) ELSE tree,
                    l, paths, ids, ci + 1)

\* get_prtg_tree_adapter with root_is_site = False: the company root, the
\* site node below it, and the ConfigItems of the location below the site
SiteTree(l, paths, ids) ==
    AddSiteCis(<<GroupNode(RootName, None, 0), GroupNode(SiteName(l), None, 1)>>,
               l, paths, ids, 1)

\* The platform before sync_all_sites: the company root (id 1), possibly the
\* group of one site (id 2) with a group (id 3) and a device (id 4) in it.
SitePlatforms ==
    {[id \in Ids |-> CASE id = 1 -> GroupObject(RootName, None)
                      [] id = 2 -> g2
                      [] id = 3 -> g3
                      [] id = 4 -> d4
                      [] OTHER -> NoObject] :
        g2 \in {NoObject} \cup {GroupObject(SiteName(l), 1) : l \in Locations},
        g3 \in {NoObject, GroupObject(NameC, 2)},
        d4 \in {NoObject} \cup {DeviceObject(DeviceName(1), q, 1) : q \in {2, 3}}}

SitesInit ==
    /\ prtg \in {p \in SitePlatforms : WellFormed(p)}
    /\ nextId = 6
    /\ cipath \in [CIs -> SitePaths]
    /\ snow \in [CIs -> {None, 4, 5}]
    /\ \A ci \in CIs : snow[ci] = 4 =>
           /\ ci = 1
           /\ prtg[4].kind = "device"
           /\ prtg[2].name = SiteName(LocationOf(ci))
    /\ expected = <<>>
    /\ current = <<>>
    /\ pc = "get_tree"
    /\ device_to_add = <<>>
    /\ idx = 0
    /\ groups_to_add = <<>>
    /\ new_device = None
    /\ returned = <<>>
    /\ calls = <<>>
    /\ before = prtg
    /\ before_snow = snow
    /\ previous = "idle"
    /\ existing_group = None
    /\ current_parent = None
    /\ grandparent = None
    /\ request = [op |-> "sync_all_sites"]
    /\ run = 0

\* sync_all_sites, lines 241-251: the current tree is fetched once
GetTreeOnce ==
    /\ pc = "get_tree"
    /\ \E devices \in Orderings(get_devices_by_group_id(prtg, 1)) :
           current' = get_tree(prtg, 1, devices)
    /\ pc' = "next_location"
    /\ UNCHANGED <<prtg, nextId, snow, cipath, expected, device_to_add, idx, groups_to_add,
                   new_device, returned, calls, before, before_snow, previous, run, moveVars>>

\* sync_all_sites, lines 254-263: the expected tree of the next location is
\* built and sync_trees is called with it and the tree fetched at the start
NextLocation ==
    /\ pc \in {"next_location", "done"}
    /\ run < Cardinality(Locations)
    /\ run' = run + 1
    /\ expected' = SiteTree(run', cipath, snow)
    /\ pc' = "sync_groups"
    /\ device_to_add' = <<>>
    /\ idx' = 0
    /\ groups_to_add' = <<>>
    /\ new_device' = None
    /\ previous' = pc
    /\ UNCHANGED <<prtg, nextId, snow, cipath, current, returned, calls, before,
                   before_snow, moveVars>>

SitesNext ==
    \/ GetTreeOnce \/ NextLocation
    \/ SyncGroups \/ AddDevice \/ AddGroup \/ AddDeviceAgain \/ WriteBack

SpecSites == SitesInit /\ [][SitesNext]_vars

\* ---------------------------------------------------------------- sync_device
\* group names below the root: "[C] <used_for>" and, below those,
\* "[C] <category>"
StageNames == {NameA, NameB}
CategoryNames == {NameC, NameD}
MovePaths ==
    {path \in UNION {[1 .. n -> StageNames \cup CategoryNames] : n \in 0 .. MaxDepth} :
        \A k \in DOMAIN path : (k = 1) <=> (path[k] \in StageNames)}

\* the name a device had on the platform before its ConfigItem was edited
OldDeviceName(ci) == <<5, ci, 9>>

\* The platform before sync_device or sync_device_to_group_v2: the root
\* (id 1), a used_for group (id 2) under it, a category group (id 3) under
\* that one, a device (id 4) in one of the two, and possibly another used_for
\* group (id 5), another group (id 6) and another device (id 7); id 8 belonged
\* to a device that has been deleted.
MovePlatforms ==
    {[id \in Ids |-> CASE id = 1 -> GroupObject(n1, None)
                      [] id = 2 -> GroupObject(n2, 1)
                      [] id = 3 -> GroupObject(n3, 2)
                      [] id = 4 -> DeviceObject(n4, q4, 1)
                      [] id = 5 -> g5
                      [] id = 6 -> g6
                      [] id = 7 -> d7
                      [] OTHER -> NoObject] :
        n1 \in {RootName, OtherRoot}, n2 \in StageNames, n3 \in CategoryNames,
        n4 \in {DeviceName(1), OldDeviceName(1)}, q4 \in {2, 3},
        g5 \in {NoObject} \cup {GroupObject(n, 1) : n \in StageNames},
        g6 \in {NoObject} \cup {GroupObject(n, q) : n \in CategoryNames, q \in {2, 3, 5}},
        d7 \in {NoObject} \cup {DeviceObject(DeviceName(2), q, 2) : q \in {2, 3, 5, 6}}}

\* the tree sync_device is given: the path of groups from the root to the
\* one device of ConfigItem 1
DeviceTree(path, id) == add_ci(<<GroupNode(RootName, None, 0)>>, 1, path, 1, id)

\* SnowData: the body of a sync_device_to_group request
Requests ==
    [op : {"sync_device_to_group"}, objid : {4, 8},
     category : {None, 3, 4}, used_for : {None, 1, 2}, prex_category : {3, 4}]

\* the groups below `under` named "[C] <label>"
Named(p, under, cb, label) ==
    {g \in get_groups_by_group_id(p, under) : p[g].name = <<cb, label>>}

MoveInit ==
    /\ prtg \in {p \in MovePlatforms : \A id \in Ids : p[id].parent # None => p[p[id].parent].kind = "group"}
    /\ nextId = 9
    /\ request \in {[op |-> "sync_device"]} \cup Requests
    /\ cipath \in [CIs -> MovePaths]
    /\ \A ci \in CIs : (ci # 1 \/ request.op # "sync_device") => cipath[ci] = <<>>
    /\ snow \in [CIs -> {None, 4, 7, 8}]
    /\ \A ci \in CIs : ci # 1 => snow[ci] = (IF prtg[7].kind = "device" THEN 7 ELSE None)
    /\ snow[1] # 7
    /\ request.op # "sync_device" => snow[1] = request.objid
    \* a used_for group is looked for among groups with distinct names
    /\ (request.op # "sync_device" /\ request.used_for # None)
           => Cardinality(Named(prtg, 1, 0, request.used_for)) <= 1
    /\ expected = DeviceTree(cipath[1], snow[1])
    /\ current = <<>>
    /\ pc = (IF request.op = "sync_device" THEN "sd_resolve" ELSE "v2_resolve")
    /\ device_to_add = <<>>
    /\ idx = 0
    /\ groups_to_add = <<>>
    /\ new_device = None
    /\ returned = <<>>
    /\ calls = <<>>
    /\ before = prtg
    /\ before_snow = snow
    /\ previous = "idle"
    /\ existing_group = None
    /\ current_parent = None
    /\ grandparent = None
    /\ run = 1

treeVars == <<current, device_to_add, idx, new_device, returned>>
ghostVars == <<before, before_snow, previous, run>>

\* the expected device node of the tree
ExpectedDevice(exp) == CHOOSE n \in DOMAIN exp : exp[n].kind = "device"

RECURSIVE FindGroups(_, _, _, _)
\* sync_device, lines 148-159: the groups are looked up by name, in tree
\* order, up to the first one that is not found (or found more than once);
\* that one and all after it are to be created
FindGroups(p, exp, nodes, found) ==
    IF nodes = <<>> THEN [existing_group |-> found, groups_to_create |-> <<>>]
    ELSE LET hit == GroupsNamed(p, exp[Head(nodes)].name)
         IN IF Cardinality(hit) = 1
            THEN FindGroups(p, exp, Tail(nodes), CHOOSE g \in hit : TRUE)
            ELSE [existing_group |-> found, groups_to_create |-> nodes]

\* mutant: the groups are looked up without checking the device id first
SD_ResolveGroupsFirst ==
    /\ pc = "sd_resolve"
    /\ LET dev == expected[ExpectedDevice(expected)]
           roots == GroupsNamed(prtg, expected[1].name)
       IN IF Cardinality(roots) # 1
          THEN /\ pc' = "raised"
               /\ UNCHANGED <<existing_group, current_parent, groups_to_add>>
          ELSE LET r == FindGroups(prtg, expected, Tail(LevelOrderOf(expected, "group")),
                                   CHOOSE g \in roots : TRUE)
               IN /\ existing_group' = r.existing_group
                  /\ groups_to_add' = r.groups_to_create
                  /\ current_parent' = IF dev.id = None THEN None ELSE prtg[dev.id].parent
                  /\ pc' = IF r.groups_to_create # <<>> THEN "sd_add_group"
                            ELSE IF dev.id = None THEN "sd_create" ELSE "sd_update"
    /\ UNCHANGED <<prtg, nextId, snow, cipath, expected, calls, grandparent, request, treeVars, ghostVars>>

\* sync_device, lines 128-159: the device and the groups are looked up
SD_Resolve ==
    /\ pc = "sd_resolve"
    /\ LET dev == expected[ExpectedDevice(expected)]
           roots == GroupsNamed(prtg, expected[1].name)
       IN IF dev.id # None /\ prtg[dev.id].kind # "device"
          THEN \* ValueError: cannot find the device with the given id
               /\ pc' = "raised"
               /\ UNCHANGED <<existing_group, current_parent, groups_to_add>>
          ELSE IF Cardinality(roots) # 1
          THEN \* ValueError of get_group_by_name: the root group cannot be found
               /\ pc' = "raised"
               /\ UNCHANGED <<existing_group, current_parent, groups_to_add>>
          ELSE LET r == FindGroups(prtg, expected, Tail(LevelOrderOf(expected, "group")),
                                   CHOOSE g \in roots : TRUE)
               IN /\ existing_group' = r.existing_group
                  /\ groups_to_add' = r.groups_to_create
                  /\ current_parent' = IF dev.id = None THEN None ELSE prtg[dev.id].parent
                  /\ pc' = IF r.groups_to_create # <<>> THEN "sd_add_group"
                            ELSE IF dev.id = None THEN "sd_create" ELSE "sd_update"
    /\ UNCHANGED <<prtg, nextId, snow, cipath, expected, calls, grandparent, request, treeVars, ghostVars>>

\* sync_device, lines 162-165: create the next intermediate group
SD_AddGroup ==
    /\ pc = "sd_add_group"
    /\ nextId <= MaxId
    /\ prtg' = add_group(prtg, nextId, expected[Head(groups_to_add)].name, existing_group)
    /\ nextId' = nextId + 1
    /\ existing_group' = nextId
    /\ groups_to_add' = Tail(groups_to_add)
    /\ calls' = Append(calls, Call("add_group", nextId, existing_group, 1))
    /\ pc' = IF groups_to_add' # <<>> THEN "sd_add_group"
              ELSE IF expected[ExpectedDevice(expected)].id = None THEN "sd_create"
              ELSE "sd_update"
    /\ UNCHANGED <<snow, cipath, expected, current_parent, grandparent, request, treeVars, ghostVars>>

\* sync_device, lines 168-173: the device does not exist, create it
SD_Create ==
    /\ pc = "sd_create"
    /\ nextId <= MaxId
    /\ LET dev == expected[ExpectedDevice(expected)]
       IN /\ prtg' = add_device(prtg, nextId, dev.name, existing_group, dev.ci)
          /\ snow' = update_config_item(snow, dev.ci, nextId)
    /\ nextId' = nextId + 1
    /\ calls' = calls \o <<Call("add_device", nextId, existing_group, 1),
                           Call("update_config_item", nextId, None, 1)>>
    /\ pc' = "done"
    /\ UNCHANGED <<cipath, expected, groups_to_add, moveVars, treeVars, ghostVars>>

\* sync_device, lines 175-177: update device details
SD_Update ==
    /\ pc = "sd_update"
    /\ LET dev == expected[ExpectedDevice(expected)]
       IN /\ prtg' = update_device(prtg, dev.id, dev.name, dev.ci)
          /\ calls' = Append(calls, Call("update_device", dev.id, None, 1))
    /\ pc' = "sd_move"
    /\ UNCHANGED <<nextId, snow, cipath, expected, groups_to_add, moveVars, treeVars, ghostVars>>

\* sync_device, lines 179-182: move device if necessary
SD_Move ==
    /\ pc = "sd_move"
    /\ IF current_parent # existing_group
       THEN /\ prtg' = move_object(prtg, expected[ExpectedDevice(expected)].id, existing_group)
            /\ calls' = Append(calls, Call("move_object",
                                           expected[ExpectedDevice(expected)].id, existing_group, 1))
            /\ pc' = "sd_prune"
       ELSE /\ pc' = "done"
            /\ UNCHANGED <<prtg, calls>>
    /\ UNCHANGED <<nextId, snow, cipath, expected, groups_to_add, moveVars, treeVars, ghostVars>>

\* a walk from group g towards the root that deletes each group with nothing
\* below it and stops at the first one that is kept, or at the root
RECURSIVE PruneUpward(_, _)
PruneUpward(p, g) ==
    IF p[g].parent = None THEN p
    ELSE IF get_groups_by_group_id(p, g) = {} /\ get_devices_by_group_id(p, g) = {}
         THEN PruneUpward(delete_object(p, g), p[g].parent)
         ELSE p

\* sync_device, lines 184-189: the group the device left is deleted when
\* nothing is below it
PruneLast(p, g) ==
    IF get_groups_by_group_id(p, g) = {} /\ get_devices_by_group_id(p, g) = {}
    THEN delete_object(p, g)
    ELSE p

\* sync_device, lines 184-189: remove the previous group if it is empty
SD_Prune ==
    /\ pc = "sd_prune"
    /\ prtg' = PruneLast(prtg, current_parent)
    /\ calls' = IF prtg' # prtg
                THEN Append(calls, Call("delete_object", current_parent, None, 1))
                ELSE calls
    /\ pc' = "done"
    /\ UNCHANGED <<nextId, snow, cipath, expected, groups_to_add, moveVars, treeVars, ghostVars>>

SyncDeviceNext ==
    SD_Resolve \/ SD_AddGroup \/ SD_Create \/ SD_Update \/ SD_Move \/ SD_Prune

\* ---------------------------------------------------- sync_device_to_group_v2
\* set_prop_base: the device gets the name built from the request
set_prop_base(p, id, name) == [p EXCEPT ![id].name = name]

\* mutant: only the devices whose parent is the group itself are listed
get_direct_devices(p, g) == {d \in Ids : p[d].kind = "device" /\ p[d].parent = g}

\* get_empty_group(client, groupid) == []: no device below the group
get_empty_group(p, g) == get_devices_by_group_id(p, g)

\* main.py, lines 405-411: the device, its parent, grandparent and
\* great-grandparent are fetched; then, lines 413-430 or 487-496, the group
\* to move to is looked for
V2_Resolve ==
    /\ pc = "v2_resolve"
    /\ LET dev == request.objid
           parent == prtg[dev].parent
           gp == IF parent = None THEN None ELSE prtg[parent].parent
           ggp == IF gp = None THEN None ELSE prtg[gp].parent
           cb == Head(prtg[parent].name)
       IN IF prtg[dev].kind # "device" \/ gp = None \/ ggp = None
             \/ (request.category = None /\ request.used_for = None)
          THEN \* an exception of the client, answered with an HTTP error
               /\ pc' = "raised"
               /\ UNCHANGED <<existing_group, current_parent, grandparent, groups_to_add>>
          ELSE IF request.category = None
          THEN \* case 1: the used_for group changes
               /\ current_parent' = parent
               /\ grandparent' = gp
               /\ pc' = "v2_add_group"
               /\ LET stages == Named(prtg, ggp, cb, request.used_for)
                  IN IF stages = {}
                     THEN /\ existing_group' = ggp
                          /\ groups_to_add' = << <<cb, request.used_for>>,
                                                 <<cb, request.prex_category>> >>
                     ELSE \E s \in stages :
                            LET cats == Named(prtg, s, cb, request.prex_category)
                            IN IF cats = {}
                               THEN /\ existing_group' = s
                                    /\ groups_to_add' = << <<cb, request.prex_category>> >>
                               ELSE /\ existing_group' \in cats
                                    /\ groups_to_add' = <<>>
          ELSE IF request.used_for = None
          THEN \* case 2: the category group changes
               /\ current_parent' = parent
               /\ grandparent' = gp
               /\ pc' = "v2_add_group"
               /\ LET cats == Named(prtg, gp, cb, request.category)
                  IN IF cats = {}
                     THEN /\ existing_group' = gp
                          /\ groups_to_add' = << <<cb, request.category>> >>
                     ELSE /\ existing_group' \in cats
                          /\ groups_to_add' = <<>>
          ELSE \* neither case applies
               /\ pc' = "done"
               /\ UNCHANGED <<existing_group, current_parent, grandparent, groups_to_add>>
    /\ UNCHANGED <<prtg, nextId, snow, cipath, expected, calls, request, treeVars, ghostVars>>

\* main.py, lines 447, 464-465, 513: client.add_group for each missing group
V2_AddGroup ==
    /\ pc = "v2_add_group"
    /\ groups_to_add # <<>>
    /\ nextId <= MaxId
    /\ prtg' = add_group(prtg, nextId, Head(groups_to_add), existing_group)
    /\ nextId' = nextId + 1
    /\ existing_group' = nextId
    /\ groups_to_add' = Tail(groups_to_add)
    /\ calls' = Append(calls, Call("add_group", nextId, existing_group, 1))
    /\ UNCHANGED <<pc, snow, cipath, expected, current_parent, grandparent, request, treeVars, ghostVars>>

\* main.py, lines 432-437, 449-454, 467-472, 499-508, 514-520:
\* client.move_object and set_prop_base
V2_Move ==
    /\ pc = "v2_add_group"
    /\ groups_to_add = <<>>
    /\ prtg' = set_prop_base(move_object(prtg, request.objid, existing_group),
                             request.objid, DeviceName(1))
    /\ calls' = Append(calls, Call("move_object", request.objid, existing_group, 1))
    /\ pc' = "v2_prune"
    /\ UNCHANGED <<nextId, snow, cipath, expected, groups_to_add, moveVars, treeVars, ghostVars>>

\* main.py, lines 438-439, 455-456, 473-474, 501-502, 521-522: the group the
\* device left is deleted when no device is below it
V2_PruneParent ==
    /\ pc = "v2_prune"
    /\ IF get_empty_group(prtg, current_parent) = {}
       THEN /\ prtg' = delete_object(prtg, current_parent)
            /\ calls' = Append(calls, Call("delete_object", current_parent, None, 1))
       ELSE UNCHANGED <<prtg, calls>>
    /\ pc' = IF request.category = None THEN "v2_prune_grandparent" ELSE "done"
    /\ UNCHANGED <<nextId, snow, cipath, expected, groups_to_add, moveVars, treeVars, ghostVars>>

\* main.py, lines 440-441, 457-458, 475-476: in case 1 the same for the
\* grandparent
V2_PruneGrandparent ==
    /\ pc = "v2_prune_grandparent"
    /\ IF get_empty_group(prtg, grandparent) = {}
       THEN /\ prtg' = delete_object(prtg, grandparent)
            /\ calls' = Append(calls, Call("delete_object", grandparent, None, 1))
       ELSE UNCHANGED <<prtg, calls>>
    /\ pc' = "done"
    /\ UNCHANGED <<nextId, snow, cipath, expected, groups_to_add, moveVars, treeVars, ghostVars>>

SyncDeviceToGroupNext ==
    V2_Resolve \/ V2_AddGroup \/ V2_Move \/ V2_PruneParent \/ V2_PruneGrandparent

MoveNext == SyncDeviceNext \/ SyncDeviceToGroupNext

SpecMove == MoveInit /\ [][MoveNext]_vars

\* ------------------------------------------------------------ update_company
\* update_company of src/reconcile-snow-prtg/sync/update_prtg.py works on the
\* structure root -> infrastructure group -> stage groups -> class groups ->
\* devices.  A ConfigItem's cipath is <<u_used_for, sys_class_name>>.

\* str(): the decimal digits of an object id
Str(n) == IF n < 10 THEN <<n>> ELSE <<n \div 10, n % 10>>

\* the display value of the u_prtg_id field: a string, empty when unset
DisplayValue(v) == IF v = None THEN <<>> ELSE Str(v)

RECURSIVE Depth(_, _)
\* the number of groups above object id on platform p
Depth(p, id) == IF p[id].parent = None THEN 0 ELSE 1 + Depth(p, p[id].parent)

\* the platforms update_company starts from: the site's root 1, the
\* infrastructure group 2, the stage group 3 with the class groups 4 and 5,
\* the devices 6 and 7 each in a class group or absent, and the probe's own
\* device 8 or none
CompanyPlatforms ==
    {[id \in Ids |->
        CASE id = 1 -> GroupObject(RootName, None)
          [] id = 2 -> GroupObject(OtherRoot, 1)
          [] id = 3 -> GroupObject(NameA, 2)
          [] id = 4 -> GroupObject(NameC, 3)
          [] id = 5 -> GroupObject(NameD, 3)
          [] id = 6 -> IF d6 = None THEN NoObject ELSE DeviceObject(OldDeviceName(1), d6, 1)
          [] id = 7 -> IF d7 = None THEN NoObject ELSE DeviceObject(OldDeviceName(2), d7, 2)
          [] id = 8 -> IF pd THEN DeviceObject(ProbeDeviceName, 1, None) ELSE NoObject
          [] OTHER -> NoObject] :
        d6 \in {None, 4, 5}, d7 \in {None, 4}, pd \in BOOLEAN}

CompanyInit ==
    /\ prtg \in CompanyPlatforms
    /\ nextId = 9
    /\ snow \in [CIs -> {None, 6, 7, 10}]
    /\ cipath \in [CIs -> {<<NameA, NameC>>, <<NameA, NameD>>, <<NameB, NameC>>}]
    /\ cipath[2][1] = NameA
    /\ expected = {}
    /\ current = {}
    /\ pc = "uc_start"
    /\ device_to_add = <<>>
    /\ idx = 0
    /\ groups_to_add = <<>>
    /\ new_device = None
    /\ returned = <<>>
    /\ calls = <<>>
    /\ before = prtg
    /\ before_snow = snow
    /\ previous = "idle"
    /\ existing_group = None
    /\ current_parent = None
    /\ grandparent = None
    /\ request \in [op : {"update_company"}, errors : BOOLEAN]
    /\ run = 0

companyFrame == <<cipath, groups_to_add, new_device, returned, moveVars>>

\* lines 44-54: dict_tree, the stage groups (class <<>>) and class groups of
\* the infrastructure group by name
DictTree(p) ==
    {[stage |-> p[g].name, class |-> <<>>, id |-> g] :
        g \in {g \in Ids : p[g].kind = "group" /\ p[g].parent = 2}}
    \cup
    {[stage |-> p[p[g].parent].name, class |-> p[g].name, id |-> g] :
        g \in {g \in Ids : p[g].kind = "group" /\ p[g].parent \in Ids
                           /\ p[p[g].parent].parent = 2}}

\* lines 56-59: the keys of only_in_prtg before the comparison
DeviceKeys(p) == {Str(d) : d \in get_devices_by_group_id(p, 1)}

RECURSIVE Compare(_, _, _, _)
\* lines 65-70: <<only_in_prtg, only_in_snow>> after comparing the
\* ConfigItems ci, ci + 1, ... in order
Compare(inv, ci, only_in_prtg, only_in_snow) ==
    IF ci > NumCI THEN <<only_in_prtg, only_in_snow>>
    ELSE IF DisplayValue(inv[ci]) \in only_in_prtg
         THEN Compare(inv, ci + 1, only_in_prtg \ {DisplayValue(inv[ci])}, only_in_snow)
         ELSE Compare(inv, ci + 1, only_in_prtg, Append(only_in_snow, ci))

\* the object id a key of only_in_prtg stands for
IdOf(key) == CHOOSE d \in Ids : Str(d) = key

\* lines 13-40: the run ends early when required fields are missing
UC_MissingFields ==
    /\ pc = "uc_start" \/ (pc = "done" /\ run < MaxRuns)
    /\ request.errors
    /\ pc' = "done"
    /\ previous' = "missing_fields"
    /\ run' = run + 1
    /\ calls' = <<>>
    /\ before' = prtg
    /\ before_snow' = snow
    /\ request' = [request EXCEPT !.errors = FALSE]
    /\ UNCHANGED <<prtg, nextId, snow, cipath, expected, current, device_to_add, idx,
                   groups_to_add, new_device, returned, existing_group, current_parent,
                   grandparent>>

\* lines 13-70: fetch both sides, parse the tree and compare
UC_Compare ==
    /\ pc = "uc_start" \/ (pc = "done" /\ run < MaxRuns)
    /\ ~request.errors
    /\ LET cmp == Compare(snow, 1, DeviceKeys(prtg), <<>>)
       IN /\ current' = cmp[1]
          /\ device_to_add' = cmp[2]
    /\ expected' = DictTree(prtg)
    /\ idx' = 1
    /\ pc' = "uc_delete"
    /\ previous' = "running"
    /\ run' = run + 1
    /\ calls' = <<>>
    /\ before' = prtg
    /\ before_snow' = snow
    /\ UNCHANGED <<prtg, nextId, snow, companyFrame>>

\* lines 74-75: remove the next device that is not in the inventory
UC_Delete ==
    /\ pc = "uc_delete"
    /\ current # {}
    /\ LET d == SetMin({IdOf(k) : k \in current})
       IN /\ prtg' = delete_object(prtg, d)
          /\ current' = current \ {Str(d)}
          /\ calls' = Append(calls, Call("delete_object", d, None, None))
    /\ UNCHANGED <<nextId, snow, expected, pc, device_to_add, idx, before, before_snow,
                   previous, run, companyFrame>>

\* line 78: all devices removed, on to the devices to add
UC_Deleted ==
    /\ pc = "uc_delete"
    /\ current = {}
    /\ pc' = "uc_add"
    /\ UNCHANGED <<prtg, nextId, snow, expected, current, device_to_add, idx, calls,
                   before, before_snow, previous, run, companyFrame>>

\* lines 78-103: add the next device of only_in_snow, with its stage group
\* and class group when dict_tree has none, and write its id back
UC_Add ==
    /\ pc = "uc_add"
    /\ idx <= Len(device_to_add)
    /\ LET ci == device_to_add[idx]
           st == cipath[ci][1]
           cl == cipath[ci][2]
           stages == {e \in expected : e.stage = st /\ e.class = <<>>}
           new_stage == stages = {}
           stage_id == IF new_stage THEN nextId ELSE (CHOOSE e \in stages : TRUE).id
           id1 == IF new_stage THEN nextId + 1 ELSE nextId
           p1 == IF new_stage THEN add_group(prtg, stage_id, st, 2) ELSE prtg
           classes == {e \in expected : e.stage = st /\ e.class = cl}
           new_class == classes = {}
           class_id == IF new_class THEN id1 ELSE (CHOOSE e \in classes : TRUE).id
           id2 == IF new_class THEN id1 + 1 ELSE id1
           p2 == IF new_class THEN add_group(p1, class_id, cl, stage_id) ELSE p1
       IN /\ id2 <= MaxId
          /\ prtg' = add_device(p2, id2, <<ci>>, class_id, ci)
          /\ nextId' = id2 + 1
          /\ snow' = update_config_item(snow, ci, id2)
          /\ expected' = expected
                \cup (IF new_stage THEN {[stage |-> st, class |-> <<>>, id |-> stage_id]} ELSE {})
                \cup (IF new_class THEN {[stage |-> st, class |-> cl, id |-> class_id]} ELSE {})
          /\ calls' = Append(calls, Call("add_device", id2, class_id, ci))
    /\ idx' = idx + 1
    /\ UNCHANGED <<current, pc, device_to_add, before, before_snow, previous, run,
                   companyFrame>>

\* mutant: every class group counts as empty
ClassGroups(p) == {g \in Ids : p[g].kind = "group" /\ Depth(p, g) = 3}

\* lines 111-112: the class groups that hold no device
EmptyClassGroups(p) ==
    {g \in Ids : /\ p[g].kind = "group"
                 /\ Depth(p, g) = 3
                 /\ ~\E d \in Ids : p[d].kind = "device" /\ p[d].parent = g}

\* lines 118-119: the stage groups that hold no group
EmptyStageGroups(p) ==
    {g \in Ids : /\ p[g].kind = "group"
                 /\ Depth(p, g) = 2
                 /\ ~\E d \in Ids : p[d].kind = "group" /\ p[d].parent = g}

RECURSIVE DeleteAll(_, _)
\* delete_object for each object of the set
DeleteAll(p, S) ==
    IF S = {} THEN p ELSE DeleteAll(delete_object(p, SetMin(S)), S \ {SetMin(S)})

\* lines 108-113: remove the class groups that are empty
UC_RemoveClasses ==
    /\ pc = "uc_add"
    /\ idx > Len(device_to_add)
    /\ prtg' = DeleteAll(prtg, EmptyClassGroups(prtg))
    /\ pc' = "uc_stages"
    /\ UNCHANGED <<nextId, snow, expected, current, device_to_add, idx, calls, before,
                   before_snow, previous, run, companyFrame>>

\* lines 115-120: remove the stage groups that are empty
UC_RemoveStages ==
    /\ pc = "uc_stages"
    /\ prtg' = DeleteAll(prtg, EmptyStageGroups(prtg))
    /\ pc' = "done"
    /\ previous' = "ok"
    /\ UNCHANGED <<nextId, snow, expected, current, device_to_add, idx, calls, before,
                   before_snow, run, companyFrame>>

CompanyNext ==
    \/ UC_MissingFields \/ UC_Compare \/ UC_Delete \/ UC_Deleted \/ UC_Add
    \/ UC_RemoveClasses \/ UC_RemoveStages

SpecCompany == CompanyInit /\ [][CompanyNext]_vars

\* ------------------------------------------------------ get_prtg_tree_adapter
\* Field values are tokens, 0 for an empty one.  Stages are 1 and 2; the
\* categories are Server, Network, Virtualization and one that category_map
\* does not know; the classes are given with the sub-buckets below.
Label ==
    [Server |-> 3,
     Network |-> 4,
     Virtualization |-> 5,
     Software |-> 6,
     WindowsServer |-> 21,
     Switch |-> 22,
     WirelessAccessPoint |-> 23,
     VirtualMachineInstance |-> 24,
     Printer |-> 25,
     IPSwitch |-> 31,
     APs |-> 32,
     VirtualMachine |-> 33,
     CCInfrastructure |-> 10,
     CustomerManagedInfrastructure |-> 11]

\* group_name_fmt.format(group_name): '[C] ' followed by the label
Fmt(label) == IF label = 0 THEN <<0>> ELSE <<0, label>>

\* lines 272-305 (abridged): for each category of category_map, its
\* sub-buckets as <<label, sys_class values>>
ClassMap(category) ==
    CASE category = Label.Server -> {<<Label.WindowsServer, {Label.WindowsServer}>>}
      [] category = Label.Network -> {<<Label.IPSwitch, {Label.Switch}>>, <<Label.APs, {Label.WirelessAccessPoint}>>}
      [] category = Label.Virtualization ->
             {<<Label.VirtualMachine, {Label.VirtualMachineInstance, Label.WindowsServer}>>}
      [] OTHER -> {}

\* mutant: no sys_class is found in a sub-bucket
NoChoiceSet(map, ci) == <<>>

\* MultiChoiceSetFieldGroup.get_group: the first sub-bucket whose choices
\* hold the sys_class, or no group
MultiChoiceSetFieldGroup(map, ci) ==
    LET hit == {b \in map : ci.sys_class \in b[2]}
    IN IF hit = {} THEN <<>> ELSE <<Fmt((CHOOSE b \in hit : TRUE)[1])>>

\* ValueFieldGroup('category', children_map=category_map).get_group and the
\* levels that follow it
CategoryFieldGroup(ci) ==
    <<Fmt(ci.category)>> \o MultiChoiceSetFieldGroup(ClassMap(ci.category), ci)

\* ValueFieldGroup('stage', child=category_group).get_group and what follows
StageFieldGroup(ci) == <<Fmt(ci.stage)>> \o CategoryFieldGroup(ci)

\* BooleanFieldGroup('is_internal', ...).get_group and what follows
BooleanFieldGroup(ci) ==
    IF ci.is_internal THEN <<Fmt(Label.CCInfrastructure)>>
    ELSE <<Fmt(Label.CustomerManagedInfrastructure)>> \o StageFieldGroup(ci)

\* FORMAT_MAP: the fields a name format reads, in the order of the
\* template; format 1 is 'ip only', format 2 is 'hostname + ip'
FORMAT_MAP(format_key) ==
    IF format_key = 2 THEN <<"manufacturer.name", "host_name", "ip_address">>
    ELSE <<"manufacturer.name", "ip_address">>

\* _check_required_fields: the fields of the template that are None or
\* empty.  reduce(getattr, ['manufacturer', 'name'], ci) reads the name of
\* the manufacturer, which raises AttributeError when the ConfigItem has none.
_check_required_fields(ci, name_format) ==
    [raises |-> ci.manufacturer = None,
     missing_fields |-> {f \in Range(name_format) :
                            \/ f = "host_name" /\ ci.host_name = None
                            \/ f = "ip_address" /\ ci.ip_address = None}]

\* from_ci, lines 42-53: the name format the display name is built from,
\* None for the ConfigItem's own name
name_format(ci, format_key) ==
    IF format_key = None THEN None
    ELSE IF _check_required_fields(ci, FORMAT_MAP(format_key)).missing_fields # {} THEN 1
    ELSE format_key

\* PrtgDeviceAdapter.from_ci: how building the Device ends.  With a name
\* format, reading manufacturer.name of a ConfigItem without manufacturer
\* raises AttributeError; an empty stage or category raises ValueError.
from_ci(ci, format_key) ==
    IF format_key # None /\ _check_required_fields(ci, FORMAT_MAP(format_key)).raises
    THEN "AttributeError"
    ELSE IF ci.stage = 0 \/ ci.category = 0 THEN "ValueError"
    ELSE "Device"

\* the ConfigItems of a site, as SnowController._get_config_item returns them
ConfigItemRecords ==
    [is_internal : BOOLEAN, stage : {0, 1, 2},
     category : {0, Label.Server, Label.Network, Label.Virtualization, Label.Software},
     sys_class : {Label.WindowsServer, Label.Switch, Label.WirelessAccessPoint, Label.VirtualMachineInstance, Label.Printer},
     manufacturer : {None, 1}, ip_address : {None, 1}, host_name : {None, 1},
     prtg_id : {None}]

\* the second ConfigItem of the site
SecondConfigItems ==
    [is_internal : {FALSE}, stage : {1}, category : {Label.Server, Label.Network},
     sys_class : {Label.WindowsServer, Label.Switch, Label.Printer},
     manufacturer : {1}, ip_address : {1}, host_name : {1}, prtg_id : {None}]

\* mutant: the gate is never closed
GateAlwaysOpen(num_devices, min_device) == FALSE

\* line 263: not enough devices
Gated(num_devices, min_device) == num_devices < min_device

\* lines 248-258: the root with the site node, or the site as the root
SiteRoot(root_is_site) ==
    IF root_is_site THEN <<GroupNode(SiteName(1), None, 0)>>
    ELSE <<GroupNode(RootName, None, 0), GroupNode(SiteName(1), None, 1)>>

RECURSIVE AttachAll(_, _, _, _, _)
\* lines 265-267 and 324-325: attach the ConfigItems k, k + 1, ... in order,
\* flat under the site node or along their groups
AttachAll(tree, site, cis, k, flat) ==
    IF k > Len(cis) THEN tree
    ELSE AttachAll(add_ci(tree, site, IF flat THEN <<>> ELSE BooleanFieldGroup(cis[k]),
                          k, cis[k].prtg_id),
                   site, cis, k + 1, flat)

\* the exception of the first ConfigItem from_ci rejects, or "Device"
FirstError(cis, format_key) ==
    LET bad == {k \in DOMAIN cis : from_ci(cis[k], format_key) # "Device"}
    IN IF bad = {} THEN "Device" ELSE from_ci(cis[SetMin(bad)], format_key)

\* the words of a field value: stage 2 ("Disaster Recovery") has two, every
\* other value one
Words(value) == IF value = 2 THEN <<2, 9>> ELSE <<value>>

\* from_ci, lines 59 and 70: the Device of a node carries the tags
\* {ci.stage, ci.category} and the name built from the name format
PrtgDeviceAdapter(node, ci, format_key) ==
    [kind |-> node.kind, name |-> node.name, id |-> node.id, parent |-> node.parent,
     ci |-> node.ci, tags |-> {Words(ci.stage), Words(ci.category)},
     name_format |-> name_format(ci, format_key)]

\* get_prtg_tree_adapter: the tree it returns
get_prtg_tree_adapter(req) ==
    LET root == SiteRoot(req.root_is_site)
        tree == AttachAll(root, Len(root), req.config_items, 1,
                          Gated(req.num_devices, req.min_device))
    IN [k \in DOMAIN tree |->
          IF tree[k].kind = "device"
          THEN PrtgDeviceAdapter(tree[k], req.config_items[tree[k].ci], req.format_key)
          ELSE tree[k]]

AdapterRequests ==
    [op : {"get_prtg_tree_adapter"},
     config_items : {<<>>} \cup {<<c>> : c \in ConfigItemRecords}
                    \cup {<<c, d>> : c \in ConfigItemRecords, d \in SecondConfigItems},
     num_devices : {1, 2}, min_device : {0, 2}, root_is_site : BOOLEAN,
     format_key : {None, 1, 2}]

AdapterInit ==
    /\ request \in AdapterRequests
    /\ prtg = [id \in Ids |-> NoObject]
    /\ nextId = 1
    /\ snow = [ci \in CIs |-> None]
    /\ cipath = [ci \in CIs |-> <<>>]
    /\ expected = <<>>
    /\ current = <<>>
    /\ pc = "adapter"
    /\ device_to_add = <<>>
    /\ idx = 0
    /\ groups_to_add = <<>>
    /\ new_device = None
    /\ returned = <<>>
    /\ calls = <<>>
    /\ before = prtg
    /\ before_snow = snow
    /\ previous = "idle"
    /\ existing_group = None
    /\ current_parent = None
    /\ grandparent = None
    /\ run = 0

adapterFrame == <<prtg, nextId, snow, cipath, current, device_to_add, idx, groups_to_add,
                  new_device, returned, calls, before, before_snow, moveVars, run>>

\* get_prtg_tree_adapter returns the expected tree
BuildTree ==
    /\ pc = "adapter"
    /\ FirstError(request.config_items, request.format_key) = "Device"
    /\ expected' = get_prtg_tree_adapter(request)
    /\ pc' = "built"
    /\ previous' = "ok"
    /\ UNCHANGED adapterFrame

\* from_ci raises and no tree is returned
BuildRaises ==
    /\ pc = "adapter"
    /\ FirstError(request.config_items, request.format_key) # "Device"
    /\ expected' = <<>>
    /\ pc' = "raised"
    /\ previous' = FirstError(request.config_items, request.format_key)
    /\ UNCHANGED adapterFrame

AdapterNext == BuildTree \/ BuildRaises

SpecAdapter == AdapterInit /\ [][AdapterNext]_vars

\* both tree builders side by side: the runs of sync_trees, which start with
\* get_tree, and the runs of get_prtg_tree_adapter
TreesInit == Init \/ AdapterInit

TreesNext == Next \/ AdapterNext

SpecTrees == TreesInit /\ [][TreesNext]_vars

\* ------------------------------------------------- _sync_groups on its own
\* _sync_groups applied to pairs of trees: the expected tree of two
\* ConfigItems without ids and the current tree of a platform with two
\* groups, each holding a device, listed in either order.
GroupPlatforms ==
    {[id \in Ids |-> CASE id = 1 -> GroupObject(r, None)
                      [] id = 2 -> GroupObject(n2, 1)
                      [] id = 3 -> GroupObject(n3, q)
                      [] id = 4 -> DeviceObject(DeviceName(1), 2, None)
                      [] id = 5 -> DeviceObject(DeviceName(2), 3, None)
                      [] OTHER -> NoObject] :
        r \in {RootName, RootNameX, OtherRoot},
        n2 \in PlatformNames, n3 \in PlatformNames, q \in {1, 2}}

GroupsInit ==
    /\ prtg \in GroupPlatforms
    /\ nextId = 6
    /\ cipath \in [CIs -> Paths]
    /\ snow = [ci \in CIs |-> None]
    /\ expected = ExpectedTree(cipath, snow)
    /\ current \in {get_tree(prtg, 1, devices) : devices \in Orderings({4, 5})}
    /\ pc = "sync_groups"
    /\ device_to_add = <<>>
    /\ idx = 0
    /\ groups_to_add = <<>>
    /\ new_device = None
    /\ returned = <<>>
    /\ calls = <<>>
    /\ before = prtg
    /\ before_snow = snow
    /\ previous = "idle"
    /\ existing_group = None
    /\ current_parent = None
    /\ grandparent = None
    /\ request = [op |-> "_sync_groups"]
    /\ run = 1

\* _sync_groups, lines 35-50
SG_Stamp ==
    /\ pc = "sync_groups"
    /\ request.op = "_sync_groups"
    /\ RootMatches(expected, current)
    /\ expected' = sync_groups(expected, current)
    /\ pc' = "done"
    /\ UNCHANGED <<prtg, nextId, snow, cipath, current, device_to_add, idx, groups_to_add,
                   new_device, returned, calls, before, before_snow, previous, run, moveVars>>

\* _sync_groups, lines 36-37: RootMismatchException
SG_RootMismatch ==
    /\ pc = "sync_groups"
    /\ request.op = "_sync_groups"
    /\ ~RootMatches(expected, current)
    /\ pc' = "raised"
    /\ UNCHANGED <<prtg, nextId, snow, cipath, expected, current, device_to_add, idx,
                   groups_to_add, new_device, returned, calls, before, before_snow,
                   previous, run, moveVars>>

GroupsNext == SG_Stamp \/ SG_RootMismatch

SpecGroups == GroupsInit /\ [][GroupsNext]_vars

\* ------------------------------------------------------- get_tree, step by step
\* PrtgController.get_tree with every platform request as a step of its own.
\* device_to_add is the list of devices the platform returned, idx the
\* device at hand, groups_to_add the list nodes_to_create, current_parent
\* the id curr_parent_id, current the tree built so far (its ids are the
\* keys of group_map) and calls the log of the get_group requests.
GetTreePlatforms ==
    {[id \in Ids |-> CASE id = 1 -> GroupObject(RootName, None)
                      [] id = 2 -> GroupObject(NameA, 1)
                      [] id = 3 -> GroupObject(NameB, q3)
                      [] id = 4 -> DeviceObject(DeviceName(1), q4, None)
                      [] id = 5 -> DeviceObject(DeviceName(2), q5, None)
                      [] id = 6 -> g6
                      [] id = 7 -> d7
                      [] OTHER -> NoObject] :
        q3 \in {1, 2}, q4 \in {1, 2, 3, 6}, q5 \in {2, 3, 6},
        g6 \in {NoObject} \cup {GroupObject(NameC, q) : q \in {1, 2, 3}},
        d7 \in {NoObject, DeviceObject(ProbeDeviceName, 1, None)}
               \cup {DeviceObject(DeviceName(3), q, None) : q \in {3, 6}}}

\* mutant: only the root counts as an existing node
IsRoot(tree, id) == id = tree[1].id

\* line 359, existing_node = group_map[curr_parent_id] does not raise KeyError
InGroupMap(tree, id) == GroupMap(tree, id) # 0

GetTreeInit ==
    /\ prtg \in {p \in GetTreePlatforms : \A id \in Ids : p[id].parent # None => p[p[id].parent].kind = "group"}
    /\ nextId = 8
    /\ snow = [ci \in CIs |-> None]
    /\ cipath = [ci \in CIs |-> <<>>]
    /\ expected = <<>>
    /\ current = <<GroupNode(prtg[1].name, 1, 0)>>
    /\ pc = "gt_device"
    /\ device_to_add \in Orderings(get_devices_by_group_id(prtg, 1))
    /\ idx = 1
    /\ groups_to_add = <<>>
    /\ new_device = None
    /\ returned = <<>>
    /\ calls = <<>>
    /\ before = prtg
    /\ before_snow = snow
    /\ previous = "idle"
    /\ existing_group = None
    /\ current_parent = None
    /\ grandparent = None
    /\ request = [op |-> "get_tree"]
    /\ run = 1

getTreeFrame == <<prtg, nextId, snow, cipath, expected, new_device, returned, before,
                  before_snow, previous, existing_group, grandparent, request, run,
                  device_to_add>>

\* lines 348-351: a probe device is skipped
GT_SkipProbe ==
    /\ pc = "gt_device"
    /\ idx <= Len(device_to_add)
    /\ prtg[device_to_add[idx]].name = ProbeDeviceName
    /\ idx' = idx + 1
    /\ UNCHANGED <<pc, current, groups_to_add, current_parent, calls, getTreeFrame>>

\* lines 352-354: the next device starts a list of nodes to create
GT_Device ==
    /\ pc = "gt_device"
    /\ idx <= Len(device_to_add)
    /\ prtg[device_to_add[idx]].name # ProbeDeviceName
    /\ groups_to_add' = <<device_to_add[idx]>>
    /\ current_parent' = prtg[device_to_add[idx]].parent
    /\ pc' = "gt_walk"
    /\ UNCHANGED <<idx, current, calls, getTreeFrame>>

\* lines 360-370: the parent has no node yet; it is fetched from the
\* platform and the walk goes on with its parent
GT_Fetch ==
    /\ pc = "gt_walk"
    /\ ~InGroupMap(current, current_parent)
    /\ calls' = Append(calls, Call("get_group", current_parent, None, idx))
    /\ groups_to_add' = Append(groups_to_add, current_parent)
    /\ current_parent' = prtg[current_parent].parent
    /\ UNCHANGED <<pc, idx, current, getTreeFrame>>

\* lines 371-376: an existing node is reached; the path is created downward
GT_Splice ==
    /\ pc = "gt_walk"
    /\ InGroupMap(current, current_parent)
    /\ current' = Splice(prtg, current, GroupMap(current, current_parent), Reverse(groups_to_add))
    /\ groups_to_add' = <<>>
    /\ idx' = idx + 1
    /\ pc' = "gt_device"
    /\ UNCHANGED <<current_parent, calls, getTreeFrame>>

\* line 378: all devices done
GT_Return ==
    /\ pc = "gt_device"
    /\ idx > Len(device_to_add)
    /\ pc' = "gt_returned"
    /\ UNCHANGED <<idx, current, groups_to_add, current_parent, calls, getTreeFrame>>

GetTreeNext == GT_SkipProbe \/ GT_Device \/ GT_Fetch \/ GT_Splice \/ GT_Return

SpecGetTree == GetTreeInit /\ [][GetTreeNext]_vars

\* get_tree is one sequential loop: a step that can be taken is taken
SpecGetTreeFair == SpecGetTree /\ WF_vars(GetTreeNext)

\* ------------------------------------------------------ compare_with_attempts
\* compare_all of src/src/sync/compare_snow_prtg.py runs compare_with_attempts
\* for one site after the other.  idx counts the attempts made for the site
\* run; calls logs every call of compare with how it ended; returned holds
\* the digest entry of every site that is finished.

\* how a call of compare ends: with its number of mismatches, with a
\* connection error, or with another exception
CompareOutcomes == {"0 mismatches", "3 mismatches", "ConnectionError", "ValueError"}

\* mutant: once the attempts are used up the function only logs the failure
\* and returns None
ReturnsNone(attempts) == [result |-> "None", error |-> "none"]

\* lines 198-200: the else branch of the for loop raises ConnectionError
WhenExhausted(attempts) == [result |-> "none", error |-> "ConnectionError"]

\* compare_all, lines 206-218: the digest entry of a site
DigestEntry(site, outcome) == [site |-> site, result |-> outcome.result, error |-> outcome.error]

CompareInit ==
    /\ request \in [op : {"compare_all"}, attempts : 0 .. MaxAttempts]
    /\ prtg = [id \in Ids |-> NoObject]
    /\ nextId = 1
    /\ snow = [ci \in CIs |-> None]
    /\ cipath = [ci \in CIs |-> <<>>]
    /\ expected = <<>>
    /\ current = <<>>
    /\ pc = "next_site"
    /\ device_to_add = <<>>
    /\ idx = 0
    /\ groups_to_add = <<>>
    /\ new_device = None
    /\ returned = <<>>
    /\ calls = <<>>
    /\ before = prtg
    /\ before_snow = snow
    /\ previous = "idle"
    /\ existing_group = None
    /\ current_parent = None
    /\ grandparent = None
    /\ run = 0

compareFrame == <<prtg, nextId, snow, cipath, expected, current, device_to_add,
                  groups_to_add, new_device, before, before_snow, previous, moveVars,
                  request>>

\* compare_all, lines 204-211: the next site, compare_with_attempts is called
CA_NextSite ==
    /\ pc = "next_site"
    /\ run < Cardinality(Locations)
    /\ run' = run + 1
    /\ idx' = 0
    /\ pc' = "attempt"
    /\ UNCHANGED <<returned, calls, compareFrame>>

\* lines 193-194: compare succeeds and its result is returned
CWA_Returns ==
    /\ pc = "attempt"
    /\ idx < request.attempts
    /\ \E o \in {"0 mismatches", "3 mismatches"} :
          /\ calls' = Append(calls, [op |-> "compare", site |-> run, outcome |-> o])
          /\ returned' = Append(returned, DigestEntry(run, [result |-> o, error |-> "none"]))
    /\ pc' = "next_site"
    /\ UNCHANGED <<idx, run, compareFrame>>

\* lines 195-197: compare fails to connect; warn, sleep and go on with the
\* next attempt
CWA_Retries ==
    /\ pc = "attempt"
    /\ idx < request.attempts
    /\ calls' = Append(calls, [op |-> "compare", site |-> run, outcome |-> "ConnectionError"])
    /\ idx' = idx + 1
    /\ UNCHANGED <<pc, returned, run, compareFrame>>

\* an exception that is no connection error leaves compare_with_attempts;
\* compare_all records it (lines 212-216)
CWA_Propagates ==
    /\ pc = "attempt"
    /\ idx < request.attempts
    /\ calls' = Append(calls, [op |-> "compare", site |-> run, outcome |-> "ValueError"])
    /\ returned' = Append(returned, DigestEntry(run, [result |-> "none", error |-> "ValueError"]))
    /\ pc' = "next_site"
    /\ UNCHANGED <<idx, run, compareFrame>>

\* lines 198-200: range(attempts) is used up
CWA_Exhausted ==
    /\ pc = "attempt"
    /\ idx >= request.attempts
    /\ returned' = Append(returned, DigestEntry(run, WhenExhausted(request.attempts)))
    /\ pc' = "next_site"
    /\ UNCHANGED <<idx, calls, run, compareFrame>>

\* line 219: all sites done, the digest is sent
CA_SendDigest ==
    /\ pc = "next_site"
    /\ run = Cardinality(Locations)
    /\ pc' = "done"
    /\ UNCHANGED <<idx, returned, calls, run, compareFrame>>

CompareNext ==
    \/ CA_NextSite \/ CWA_Returns \/ CWA_Retries \/ CWA_Propagates \/ CWA_Exhausted
    \/ CA_SendDigest

SpecCompare == CompareInit /\ [][CompareNext]_vars

\* -------------------------------------------------------------- update_device
\* A tag is a sequence of words ("Disaster Recovery" is <<1, 3>>, "Server"
\* is <<2>>).  The platform keeps the tags of an object as one string of
\* words separated by blanks; only the set of the words matters here.
ExpectedTagSets == {{<<1>>, <<2>>}, {<<1, 3>>, <<2>>}}
LiveWordSets == {{}, {1, 2}, {1, 2, 3}}
Icons == {1, 2}

\* the device payload the platform's API returns
DevicePayload(name, host, service_url, priority, words, icon) ==
    [kind |-> "device", name |-> name, host |-> host, service_url |-> service_url,
     priority |-> priority, tags |-> words, icon |-> icon]

\* PrtgController._get_device: the Device of a payload; the tags are
\* set(device['tags'].split()), one tag for each word
_get_device(id, payload) ==
    [id |-> id, name |-> payload.name, host |-> payload.host,
     service_url |-> payload.service_url, priority |-> payload.priority,
     tags |-> {<<w>> : w \in payload.tags}, icon |-> payload.icon]

\* client.set_tags(id, list(tags)): the words of all the tags
set_tags(p, id, tags) == [p EXCEPT ![id].tags = UNION {Range(t) : t \in tags}]

\* PrtgDeviceAdapter: the Device that update_device is given
ExpectedDevices ==
    [id : {1}, name : {DeviceName(1)}, host : {1}, service_url : {1}, priority : {3},
     tags : ExpectedTagSets, icon : {None} \cup Icons]

UpdateInit ==
    /\ prtg \in {[id \in Ids |-> IF id = 1 THEN d ELSE NoObject] :
                    d \in {DevicePayload(n, h, u, q, w, i) :
                              n \in {DeviceName(1), OldDeviceName(1)}, h \in {1, 2},
                              u \in {1, 2}, q \in {3, 4}, w \in LiveWordSets,
                              i \in {None} \cup Icons}}
    /\ expected \in {<<d>> : d \in ExpectedDevices}
    /\ nextId = 2
    /\ snow = [ci \in CIs |-> IF ci = 1 THEN 1 ELSE None]
    /\ cipath = [ci \in CIs |-> <<>>]
    /\ current = <<>>
    /\ pc = "ud_get"
    /\ device_to_add = <<>>
    /\ idx = 0
    /\ groups_to_add = <<>>
    /\ new_device = None
    /\ returned = <<>>
    /\ calls = <<>>
    /\ before = prtg
    /\ before_snow = snow
    /\ previous = "idle"
    /\ existing_group = None
    /\ current_parent = None
    /\ grandparent = None
    /\ request = [op |-> "update_device"]
    /\ run = 0

updateFrame == <<nextId, snow, cipath, expected, device_to_add, idx, groups_to_add,
                 new_device, returned, before_snow, previous, moveVars>>

\* update_device, line 244: current_device = self.get_device(device.id)
UD_GetDevice ==
    /\ pc = "ud_get" \/ (pc = "done" /\ run < MaxRuns)
    /\ current' = <<_get_device(expected[1].id, prtg[expected[1].id])>>
    /\ calls' = <<>>
    /\ before' = prtg
    /\ run' = run + 1
    /\ pc' = "ud_name"
    /\ UNCHANGED <<prtg, updateFrame>>

\* update_device, lines 245-246
UD_Rename ==
    /\ pc = "ud_name"
    /\ IF expected[1].name # current[1].name
       THEN /\ prtg' = [prtg EXCEPT ![expected[1].id].name = expected[1].name]
            /\ calls' = Append(calls, Call("rename_object", expected[1].id, None, 1))
       ELSE UNCHANGED <<prtg, calls>>
    /\ pc' = "ud_host"
    /\ UNCHANGED <<current, before, run, updateFrame>>

\* update_device, lines 247-248
UD_SetHostname ==
    /\ pc = "ud_host"
    /\ IF expected[1].host # current[1].host
       THEN /\ prtg' = [prtg EXCEPT ![expected[1].id].host = expected[1].host]
            /\ calls' = Append(calls, Call("set_hostname", expected[1].id, None, 1))
       ELSE UNCHANGED <<prtg, calls>>
    /\ pc' = "ud_service_url"
    /\ UNCHANGED <<current, before, run, updateFrame>>

\* update_device, lines 249-250
UD_SetServiceUrl ==
    /\ pc = "ud_service_url"
    /\ IF expected[1].service_url # current[1].service_url
       THEN /\ prtg' = [prtg EXCEPT ![expected[1].id].service_url = expected[1].service_url]
            /\ calls' = Append(calls, Call("set_service_url", expected[1].id, None, 1))
       ELSE UNCHANGED <<prtg, calls>>
    /\ pc' = "ud_priority"
    /\ UNCHANGED <<current, before, run, updateFrame>>

\* update_device, lines 251-252
UD_SetPriority ==
    /\ pc = "ud_priority"
    /\ IF expected[1].priority # current[1].priority
       THEN /\ prtg' = [prtg EXCEPT ![expected[1].id].priority = expected[1].priority]
            /\ calls' = Append(calls, Call("set_priority", expected[1].id, None, 1))
       ELSE UNCHANGED <<prtg, calls>>
    /\ pc' = "ud_tags"
    /\ UNCHANGED <<current, before, run, updateFrame>>

\* update_device, lines 253-254
UD_SetTags ==
    /\ pc = "ud_tags"
    /\ IF expected[1].tags # current[1].tags
       THEN /\ prtg' = set_tags(prtg, expected[1].id, expected[1].tags)
            /\ calls' = Append(calls, Call("set_tags", expected[1].id, None, 1))
       ELSE UNCHANGED <<prtg, calls>>
    /\ pc' = "ud_icon"
    /\ UNCHANGED <<current, before, run, updateFrame>>

\* update_device, lines 255-256: only an expected icon that is set is compared
UD_SetIcon ==
    /\ pc = "ud_icon"
    /\ IF expected[1].icon # None /\ expected[1].icon # current[1].icon
       THEN /\ prtg' = [prtg EXCEPT ![expected[1].id].icon = expected[1].icon]
            /\ calls' = Append(calls, Call("set_icon", expected[1].id, None, 1))
       ELSE UNCHANGED <<prtg, calls>>
    /\ pc' = "done"
    /\ UNCHANGED <<current, before, run, updateFrame>>

UpdateNext ==
    \/ UD_GetDevice \/ UD_Rename \/ UD_SetHostname \/ UD_SetServiceUrl
    \/ UD_SetPriority \/ UD_SetTags \/ UD_SetIcon

SpecUpdate == UpdateInit /\ [][UpdateNext]_vars

\* ================================================================ claims
AddOps == {"add_group", "add_device"}
CurrentDeviceIds == {current[k].id : k \in {j \in DOMAIN current : current[j].kind = "device"}}
\* the ConfigItem of the device the k-th call was made for
CiOfCall(k) == expected[device_to_add[calls[k].dev]].ci
\* the indices of the expected groups above expected node n, the root included
AncestorsOf(n) == Range(NodePath(expected, n)) \ {n}

\* C1: after a run of sync_trees that completed, with the current tree
\* rebuilt from the platform and the expected tree from the written-back
\* ConfigItems, the next run calls neither add_group nor add_device and
\* returns an empty list.
C1_SecondRunAddsNothing ==
    (run >= 2 /\ previous = "done") =>
        /\ \A k \in DOMAIN calls : calls[k].op \notin AddOps
        /\ device_to_add = <<>>
        /\ returned = <<>>
        /\ pc \in {"sync_groups", "done"}

C1_Witness ==
    /\ run = 2 /\ previous = "done" /\ pc = "done"
    /\ \E id \in Ids : before[id].kind = "device" /\ id > 5
    /\ \E id \in Ids : before[id].kind = "group" /\ id > 5

\* C2: when the platform add_device call for an expected device has been
\* made, every ancestor group of the device has a platform id (each of its N
\* ancestors without an id has been created), and the add_group calls made for
\* the device created those ancestors root to leaf, each under a parent that
\* had an id, before the add_device call.
C2_CreationOrdering ==
    pc = "write_back" =>
        LET n == device_to_add[idx]
            mine == SelectSeq(calls, LAMBDA c : c.dev = idx)
        IN /\ \A a \in AncestorsOf(n) : expected[a].id # None
           /\ \A k \in DOMAIN mine :
                  IF k = Len(mine) THEN mine[k].op = "add_device"
                  ELSE /\ mine[k].op = "add_group"
                       /\ mine[k].parent # None
                       /\ mine[k + 1].parent = mine[k].id

C4_ResolvedUnderResolvedParent ==
    pc \notin {"idle", "sync_groups", "raised"} =>
        \A g \in DOMAIN expected :
            (expected[g].kind = "group" /\ g # 1 /\ expected[g].id # None) =>
                prtg[expected[g].id].parent = expected[expected[g].parent].id

\* C5: sync_trees never deletes or moves a device: every device that was on
\* the platform when the run started is still there, unchanged and under the
\* same parent, at every point of the run, whether or not a ConfigItem
\* carries its id.
C5_NoDeviceDeleted ==
    \A id \in Ids : before[id].kind = "device" => prtg[id] = before[id]

C5_Witness ==
    /\ pc = "done" /\ returned # <<>>
    /\ \E id \in Ids : /\ before[id].kind = "device"
                         /\ \A ci \in CIs : before_snow[ci] # id
                         /\ prtg[id] = before[id]

C7_WriteBackBeforeNextDevice ==
    \A k \in DOMAIN calls : calls[k].op \in AddOps =>
        \A j \in 1 .. k - 1 :
            (calls[j].op = "add_device" /\ calls[j].dev < calls[k].dev) =>
                /\ \E m \in j + 1 .. k - 1 :
                       calls[m].op = "update_config_item" /\ calls[m].id = calls[j].id
                /\ snow[CiOfCall(j)] = calls[j].id

C7_Witness ==
    /\ pc = "write_back" /\ idx = 2
    /\ \E k \in DOMAIN calls : calls[k].op = "add_group" /\ calls[k].dev = 2

C9_FailureSkipsOneDevice ==
    pc = "failed" =>
        \A j \in DOMAIN device_to_add : j # idx =>
            LET ci == expected[device_to_add[j]].ci
            IN /\ snow[ci] # None
               /\ before[snow[ci]].kind = "none"
               /\ prtg[snow[ci]].kind = "device" /\ prtg[snow[ci]].url = ci


\* the device the finished operation moved (None when it moved none)
MovedDevice ==
    IF \E k \in DOMAIN calls : calls[k].op = "move_object"
    THEN calls[CHOOSE k \in DOMAIN calls : calls[k].op = "move_object"].id
    ELSE None

\* the groups that were on the platform before the operation and are gone
DeletedGroups == {g \in Ids : before[g].kind = "group" /\ prtg[g].kind = "none"}

\* the group the device left and the groups above it, the root excluded
VacatedChain ==
    {g \in Ids : /\ g = current_parent \/ IsUnder(before, current_parent, g)
                 /\ before[g].parent # None}

HasBelow(p, g) == \E o \in Ids : p[o].kind # "none" /\ IsUnder(p, o, g)

DeletedByStep == {g \in Ids : prtg[g].kind = "group" /\ prtg'[g].kind = "none"}

MoveIssued == \E k \in DOMAIN calls : calls[k].op = "move_object"

SyncDeviceUpdated ==
    /\ request.op = "sync_device"
    /\ pc = "done"
    /\ \E k \in DOMAIN calls : calls[k].op = "update_device"

Setters ==
    [name |-> "rename_object", host |-> "set_hostname", service_url |-> "set_service_url",
     priority |-> "set_priority", tags |-> "set_tags", icon |-> "set_icon"]

\* C13: when update_device has returned, the setter of each of name, host,
\* service_url, priority, tags and icon has been called exactly when the
\* expected value differed from the live value, all six live fields equal the
\* expected ones, and an update_device that follows with the same expected
\* device has called no setter.
C13_UpdateDeviceDiff ==
    (request.op = "update_device" /\ pc = "done") =>
        LET live == _get_device(1, prtg[1])
            was == _get_device(1, before[1])
        IN /\ \A f \in DOMAIN Setters :
                  /\ (\E k \in DOMAIN calls : calls[k].op = Setters[f])
                         <=> (expected[1][f] # was[f])
                  /\ live[f] = expected[1][f]
           /\ run >= 2 => calls = <<>>

RECURSIVE PlatformPath(_, _)
\* the ids of the groups above object id on platform p, from the top down
PlatformPath(p, id) ==
    IF p[id].parent = None THEN <<>>
    ELSE Append(PlatformPath(p, p[id].parent), p[id].parent)

ListedDevices == get_devices_by_group_id(before, 1)

\* the ids the ConfigItems carried when the running operation started
CarriedKeys == {DisplayValue(before_snow[ci]) : ci \in CIs}

C17_GetTreeShape ==
    (request.op = "sync_trees" /\ current # <<>>) =>
        /\ current[1].id = 1 /\ current[1].parent = 0
        /\ \A j, k \in DOMAIN current : current[j].id = current[k].id => j = k
        /\ \A d \in get_devices_by_group_id(before, 1) :
               before[d].name # ProbeDeviceName =>
                   \E k \in DOMAIN current : current[k].id = d /\ current[k].kind = "device"
        /\ \A k \in DOMAIN current :
               k # 1 => /\ current[k].parent \in DOMAIN current
                        /\ current[current[k].parent].id = before[current[k].id].parent
                        /\ current[k].kind = before[current[k].id].kind

\* a fetched tree in which one group below the root is the parent of two
\* device nodes
C17_Witness ==
    /\ request.op = "sync_trees"
    /\ \E j, k \in DOMAIN current :
          /\ j # k
          /\ current[j].kind = "device" /\ current[k].kind = "device"
          /\ current[j].parent = current[k].parent
          /\ current[j].parent > 1

\* the index of the site node in a tree get_prtg_tree_adapter built
SiteNode == IF request.root_is_site THEN 1 ELSE 2

\* the names of the groups from below the site node down to the parent of
\* node k of the expected tree
GroupsBelowSite(k) ==
    LET path == NodePath(expected, k)
    IN [j \in 1 .. (Len(path) - 1 - SiteNode) |-> expected[path[j + SiteNode]].name]

\* C18: in a tree get_prtg_tree_adapter returned for a site whose device
\* count is below min_device, every ConfigItem's device is directly under the
\* site node and there is no group besides the root and the site node; with a
\* count of min_device or more no device is directly under the site node,
\* each is below the internal or the customer-managed bucket.
C18_GroupingGate ==
    (request.op = "get_prtg_tree_adapter" /\ pc = "built") =>
        /\ \A c \in DOMAIN request.config_items :
               \E k \in DOMAIN expected : expected[k].kind = "device" /\ expected[k].ci = c
        /\ IF request.num_devices < request.min_device
           THEN \A k \in DOMAIN expected :
                   k > SiteNode => expected[k].kind = "device" /\ expected[k].parent = SiteNode
           ELSE \A k \in DOMAIN expected :
                   expected[k].kind = "device" =>
                       /\ expected[k].parent # SiteNode
                       /\ GroupsBelowSite(k)[1] \in {Fmt(Label.CCInfrastructure),
                                                     Fmt(Label.CustomerManagedInfrastructure)}

\* a gated tree of two devices that differ in category and class, both
\* directly under the site node
C18_Witness ==
    /\ request.op = "get_prtg_tree_adapter" /\ pc = "built"
    /\ request.num_devices < request.min_device
    /\ Len(request.config_items) = 2
    /\ request.config_items[1].category # request.config_items[2].category
    /\ ~request.config_items[1].is_internal
    /\ \A k \in DOMAIN expected : expected[k].kind = "device" => expected[k].parent = SiteNode

C20_InvalidDeviceExcluded ==
    (request.op = "get_prtg_tree_adapter" /\ pc = "built") =>
        \A k \in DOMAIN expected :
            expected[k].kind = "device" =>
                LET ci == request.config_items[expected[k].ci]
                IN \/ ci.category = Label.Virtualization
                   \/ (ci.manufacturer # None /\ ci.ip_address # None)

\* C21: with a name format configured for the company, from_ci raises no
\* error over a field the template needs and the ConfigItem lacks, be it
\* host_name or manufacturer.name: the build never ends in the
\* AttributeError of reading a missing field.
C21_FallbackRaisesNothing ==
    (request.op = "get_prtg_tree_adapter" /\ request.format_key # None /\ pc # "adapter") =>
        previous # "AttributeError"

\* C22: every tag of a Device built from a ConfigItem is a single word, the
\* blanks of the stage and of the category replaced by hyphens, and a Device
\* has at most the two tags of its stage and its category.
C22_TagsWithoutWhitespace ==
    (request.op = "get_prtg_tree_adapter" /\ pc = "built") =>
        \A k \in DOMAIN expected :
            expected[k].kind = "device" =>
                /\ \A t \in expected[k].tags : Len(t) = 1
                /\ Cardinality(expected[k].tags) <= 2

\* node k of the tree has a child
HasChildren(tree, k) == \E j \in DOMAIN tree : tree[j].parent = k

\* every node with children is a group, and a group without children occurs
\* only in a tree that is nothing but its first base nodes
OnlyDevicesAreLeaves(tree, base) ==
    /\ \A k \in DOMAIN tree : HasChildren(tree, k) => tree[k].kind = "group"
    /\ \A k \in DOMAIN tree :
           (~HasChildren(tree, k) /\ tree[k].kind # "device") => Len(tree) = base

\* C23 as stated: in the tree get_prtg_tree_adapter returned and in the tree
\* get_tree returned, every leaf is a device and every node with children is
\* a group.
C23_LeavesAreDevices ==
    /\ (request.op \in {"sync_trees", "get_prtg_tree_adapter"} /\ expected # <<>>) =>
           \A k \in DOMAIN expected :
               HasChildren(expected, k) <=> expected[k].kind = "group"
    /\ (request.op = "sync_trees" /\ current # <<>>) =>
           \A k \in DOMAIN current :
               HasChildren(current, k) <=> current[k].kind = "group"

\* C23 amended: in both trees every node with children is a group and every
\* leaf is a device, except that the tree of a site without ConfigItems is
\* the root and the site node alone, and the tree of a root without devices
\* is the root alone.
C23_LeavesAreDevicesUnlessEmpty ==
    /\ (request.op = "get_prtg_tree_adapter" /\ pc = "built") =>
           OnlyDevicesAreLeaves(expected, SiteNode)
    /\ (request.op = "sync_trees" /\ expected # <<>>) => OnlyDevicesAreLeaves(expected, 1)
    /\ (request.op = "sync_trees" /\ current # <<>>) => OnlyDevicesAreLeaves(current, 1)

\* the tree returned for a site without ConfigItems: its site node is a leaf
C23_Witness ==
    /\ request.op = "get_prtg_tree_adapter" /\ pc = "built"
    /\ request.config_items = <<>>
    /\ expected[SiteNode].kind = "group" /\ ~HasChildren(expected, SiteNode)

\* the outcomes of the calls of compare made for a site, in order
OutcomesOf(site) ==
    LET mine == SelectSeq(calls, LAMBDA c : c.site = site)
    IN [k \in DOMAIN mine |-> mine[k].outcome]

CreatedDevices == {id \in Ids : before[id].kind = "none" /\ prtg[id].kind = "device"}

\* the add_device calls of the run that reached the platform
AddDeviceCalls == SelectSeq(calls, LAMBDA c : c.op = "add_device")

\* the ConfigItem had no id when the run began, or an id that is not the id
\* of a device of the current tree
WasMissing(ci) ==
    \/ before_snow[ci] = None
    \/ ~\E k \in DOMAIN current : current[k].kind = "device" /\ current[k].id = before_snow[ci]

AddGroupCalls == SelectSeq(calls, LAMBDA c : c.op = "add_group")

\* C26: in a run of sync_trees every group the platform gains comes from one
\* add_group call, and every add_group call is for an expected group that
\* lies above the missing device the loop is adding; no two calls create the
\* same expected group or two groups of one name under one parent; a run
\* without a missing device calls add_group not at all; when the run
\* returns, the device below every created group has been created too.
C26_GroupsOnlyAboveCreatedDevices ==
    (request.op = "sync_trees" /\ run >= 1) =>
        /\ Cardinality({id \in Ids : before[id].kind = "none" /\ prtg[id].kind = "group"})
              = Len(AddGroupCalls)
        /\ \A i \in DOMAIN AddGroupCalls :
              LET c == AddGroupCalls[i]
              IN /\ c.dev \in DOMAIN device_to_add
                 /\ \E g \in Range(NodePath(expected, device_to_add[c.dev])) :
                       /\ expected[g].kind = "group"
                       /\ expected[g].name = prtg[c.id].name
                       /\ expected[g].id = c.id \/ (pc = "failed" /\ i = Len(AddGroupCalls))
                 /\ pc = "done" => \E k \in DOMAIN AddDeviceCalls : AddDeviceCalls[k].dev = c.dev
        /\ \A i, j \in DOMAIN AddGroupCalls :
              i # j => /\ AddGroupCalls[i].id # AddGroupCalls[j].id
                       /\ ~ /\ prtg[AddGroupCalls[i].id].name = prtg[AddGroupCalls[j].id].name
                            /\ prtg[AddGroupCalls[i].id].parent = prtg[AddGroupCalls[j].id].parent
        /\ device_to_add = <<>> => AddGroupCalls = <<>>

\* a run has returned after creating two groups and a device below them,
\* and has left an expected group without a match alone because the device
\* below it is on the platform
C26_Witness ==
    /\ request.op = "sync_trees" /\ pc = "done"
    /\ Len(AddGroupCalls) = 2
    /\ Len(returned) = 1
    /\ \E g \in DOMAIN expected : expected[g].kind = "group" /\ expected[g].id = None

StampedGroups(tree) == {g \in DOMAIN tree : tree[g].kind = "group" /\ tree[g].id # None}

\* C28: after _sync_groups no two expected groups carry the same id, and
\* the id of the current root is on the expected root only.
C28_StampedIdsDistinct ==
    (request.op = "_sync_groups" /\ pc = "done") =>
        /\ \A g, h \in StampedGroups(expected) : g # h => expected[g].id # expected[h].id
        /\ \A g \in StampedGroups(expected) : g # 1 => expected[g].id # current[1].id

\* _sync_groups has run on a current tree with two groups of one name and an
\* expected tree with two groups of that name: one of them got an id, the
\* other did not
C28_Witness ==
    /\ request.op = "_sync_groups" /\ pc = "done"
    /\ \E a, b \in DOMAIN current :
          a # b /\ current[a].kind = "group" /\ current[b].kind = "group"
                /\ current[a].name = current[b].name
    /\ \E g, h \in DOMAIN expected :
          /\ g # 1 /\ h # 1 /\ g # h
          /\ expected[g].kind = "group" /\ expected[h].kind = "group"
          /\ expected[g].name = expected[h].name
          /\ expected[g].id # None /\ expected[h].id = None

\* the current groups below the root that carry exactly the name
ExactlyNamed(name) ==
    {k \in DOMAIN current : k # 1 /\ current[k].kind = "group" /\ current[k].name = name}

\* the current groups below the root whose name starts with the name and
\* goes on
PrefixNamed(name) ==
    {k \in DOMAIN current : /\ k # 1 /\ current[k].kind = "group"
                            /\ current[k].name # name /\ StartsWith(current[k].name, name)}

\* C29: when the current tree holds one group named exactly like the only
\* expected group of that name and another whose name only starts with it,
\* _sync_groups gives the expected group the id of the exactly named one.
C29_ExactNamePreferred ==
    (request.op = "_sync_groups" /\ pc = "done") =>
        \A g \in DOMAIN expected :
            (/\ g # 1 /\ expected[g].kind = "group"
             /\ \A h \in DOMAIN expected : h # g => expected[h].name # expected[g].name
             /\ Cardinality(ExactlyNamed(expected[g].name)) = 1
             /\ PrefixNamed(expected[g].name) # {})
                => \E k \in ExactlyNamed(expected[g].name) : expected[g].id = current[k].id

\* the get_group requests of a build
Fetched == [k \in DOMAIN calls |-> calls[k].id]

\* the groups of the platform that lie between the root and a listed device
IntermediateGroups ==
    {g \in Ids : /\ g # 1 /\ prtg[g].kind = "group"
                 /\ \E d \in Range(device_to_add) :
                       prtg[d].name # ProbeDeviceName /\ IsUnder(prtg, d, g)}

\* what holds at every step of a build: no group is fetched twice, only
\* groups between the root and a device are fetched, and the ids collected
\* on the walk at hand have no node yet, so the walk did not pass an id of
\* the id-to-node map
GetTreeSafe ==
    request.op = "get_tree" =>
        /\ \A i, j \in DOMAIN Fetched : i # j => Fetched[i] # Fetched[j]
        /\ Range(Fetched) \subseteq IntermediateGroups
        /\ \A k \in DOMAIN groups_to_add : GroupMap(current, groups_to_add[k]) = 0
        /\ \A a, b \in DOMAIN current : a # b => current[a].id # current[b].id
        /\ pc = "gt_returned" =>
              /\ Range(Fetched) = IntermediateGroups
              /\ current = get_tree(prtg, 1, device_to_add)

\* C30: get_tree on a platform where every listed device lies below the
\* root returns, and on the way every walk stops at the first id that has a
\* node and every intermediate group is fetched exactly once.
C30_GetTreeTerminates ==
    /\ []GetTreeSafe
    /\ <>(request.op = "get_tree" => pc = "gt_returned")

\* a build has returned after three devices, two of them below the same
\* chain of two groups, with one request for each group
C30_Witness ==
    /\ request.op = "get_tree" /\ pc = "gt_returned"
    /\ Len(device_to_add) = 3
    /\ prtg[3].parent = 2 /\ prtg[4].parent = 3 /\ prtg[5].parent = 3
    /\ Len(calls) = 2

====
